---- MODULE Spec2Model ----
(***************************************************************************)
(* A model of the load_lpp time-series conditioning code: the weighted     *)
(* moving averages (utils.rs: mavg, mavg_parallel_simd,                    *)
(* mavg_parallel_fold), the gap filler (lib.rs:                            *)
(* TimeLoad::fill_missing_with_nan), the quartile estimator (utils.rs:     *)
(* calculate_iqr), the anomaly detector (find_anomalies), the index        *)
(* operations (setnan_by_index, discharge_by_index), the operations of a   *)
(* TimeLoad taken in sequence, make_window, awat_regression,               *)
(* TimeLoad::to_hourly and the logging loop of bin/load_log.rs.            *)
(*                                                                         *)
(* f64 values are modelled in exact arithmetic as fractions num/den with   *)
(* den >= 0 in lowest terms: den > 0 is a finite value, 0/0 is NaN, 1/0 is *)
(* +Inf and -1/0 is -Inf.  Rounding and overflow of f64 are not modelled.  *)
(* Sequences are 1-based: the 0-based index j of the code is j + 1 here.   *)
(***************************************************************************)
EXTENDS Integers, Sequences, FiniteSets, TLC

VARIABLES
    v, w, max_missing_v, max_missing_wpct, vout, vout_simd, vout_fold, m_pc,
    p_v, p_w, p_variant, p_vout, p_todo, p_worker, p_pc,
    time, load, min_delta, f_i, current_dt, f_time, f_load, f_pc,
    s, min_len, iqr_res, q_pc,
    a_v, window_width, min_window_data, max_iqr, a_wi, anomalies_index, a_res, a_pc,
    x_ve, x_vi, x_res, x_pc,
    tl_time, tl_load, tl_ops, tl_pc,
    w_central, w_side, mw_side, mw_window, mw_pc,
    c_v, c_w, c_res, c_pc,
    aw_len_v, aw_len_w, ssrs, ssd, aics, aw_res, aw_pc,
    h_time, h_load, h_res, h_pc,
    dt_now, minutes, l_offset, l_now, dtr, dtr_next, connection_ok, rows, l_pc

mavg_vars == <<v, w, max_missing_v, max_missing_wpct, vout, vout_simd, vout_fold, m_pc>>
par_vars == <<p_v, p_w, p_variant, p_vout, p_todo, p_worker, p_pc>>
fill_vars == <<time, load, min_delta, f_i, current_dt, f_time, f_load, f_pc>>
iqr_vars == <<s, min_len, iqr_res, q_pc>>
anom_vars == <<a_v, window_width, min_window_data, max_iqr, a_wi, anomalies_index, a_res, a_pc>>
idx_vars == <<x_ve, x_vi, x_res, x_pc>>
tl_vars == <<tl_time, tl_load, tl_ops, tl_pc>>
win_vars == <<w_central, w_side, mw_side, mw_window, mw_pc>>
call_vars == <<c_v, c_w, c_res, c_pc>>
awat_vars == <<aw_len_v, aw_len_w, ssrs, ssd, aics, aw_res, aw_pc>>
hour_vars == <<h_time, h_load, h_res, h_pc>>
log_vars == <<dt_now, minutes, l_offset, l_now, dtr, dtr_next, connection_ok, rows, l_pc>>
late_vars == <<hour_vars, log_vars>>
base_vars == <<mavg_vars, par_vars, fill_vars, iqr_vars>>
more_vars == <<anom_vars, idx_vars, tl_vars, win_vars, call_vars, awat_vars>>
vars == <<base_vars, more_vars, late_vars>>
not_mavg_vars == <<par_vars, fill_vars, iqr_vars, more_vars, late_vars>>
not_par_vars == <<mavg_vars, fill_vars, iqr_vars, more_vars, late_vars>>
not_fill_vars == <<mavg_vars, par_vars, iqr_vars, more_vars, late_vars>>
not_iqr_vars == <<mavg_vars, par_vars, fill_vars, more_vars, late_vars>>
not_anom_vars == <<base_vars, idx_vars, tl_vars, win_vars, call_vars, awat_vars, late_vars>>
not_idx_vars == <<base_vars, anom_vars, tl_vars, win_vars, call_vars, awat_vars, late_vars>>
not_tl_vars == <<base_vars, anom_vars, idx_vars, win_vars, call_vars, awat_vars, late_vars>>
not_win_vars == <<base_vars, anom_vars, idx_vars, tl_vars, call_vars, awat_vars, late_vars>>
not_call_vars == <<base_vars, anom_vars, idx_vars, tl_vars, win_vars, awat_vars, late_vars>>
not_awat_vars == <<base_vars, anom_vars, idx_vars, tl_vars, win_vars, call_vars, late_vars>>
not_hour_vars == <<base_vars, more_vars, log_vars>>
not_log_vars == <<base_vars, more_vars, hour_vars>>

(***************************************************************************)
(* Bounds of the model.                                                    *)
(***************************************************************************)
MaxLen == 5
MaxMissingV == 2
ParLen == 4
MaxWorkers == 2
MaxTime == 5
MaxSampleLen == 5
MaxSample == 2
MaxMinLen == 3

(***************************************************************************)
(* f64 arithmetic, exact.                                                  *)
(***************************************************************************)
Abs(n) == IF n < 0 THEN -n ELSE n

RECURSIVE Gcd(_, _)
Gcd(a, b) == IF b = 0 THEN a ELSE Gcd(b, a % b)

Sign(n) == IF n > 0 THEN 1 ELSE IF n < 0 THEN -1 ELSE 0

\* The f64 value n/d, d >= 0, in lowest terms.
Frac(n, d) ==
    IF d = 0 THEN [num |-> Sign(n), den |-> 0]
    ELSE LET g == Gcd(Abs(n), d) IN [num |-> n \div g, den |-> d \div g]

F(n) == [num |-> n, den |-> 1]
NaN == [num |-> 0, den |-> 0]
PInf == [num |-> 1, den |-> 0]
NInf == [num |-> -1, den |-> 0]

IsNaN(x) == x.den = 0 /\ x.num = 0
IsInf(x) == x.den = 0 /\ x.num # 0
IsFinite(x) == x.den # 0

FNeg(x) == [num |-> -x.num, den |-> x.den]

FAdd(x, y) ==
    IF IsNaN(x) \/ IsNaN(y) THEN NaN
    ELSE IF IsInf(x) /\ IsInf(y) THEN (IF x.num = y.num THEN x ELSE NaN)
    ELSE IF IsInf(x) THEN x
    ELSE IF IsInf(y) THEN y
    ELSE Frac(x.num * y.den + y.num * x.den, x.den * y.den)

FSub(x, y) == FAdd(x, FNeg(y))

FMul(x, y) ==
    IF IsNaN(x) \/ IsNaN(y) THEN NaN
    ELSE IF IsInf(x) \/ IsInf(y)
         THEN [num |-> Sign(x.num) * Sign(y.num), den |-> 0]
    ELSE Frac(x.num * y.num, x.den * y.den)

\* x / y; a zero divisor is +0.0 (every divisor of the code is a sum from 0.).
FDiv(x, y) ==
    IF IsNaN(x) \/ IsNaN(y) THEN NaN
    ELSE IF IsInf(y) THEN (IF IsInf(x) THEN NaN ELSE F(0))
    ELSE IF IsInf(x) THEN [num |-> Sign(x.num) * (IF y.num < 0 THEN -1 ELSE 1), den |-> 0]
    ELSE IF y.num = 0 THEN [num |-> Sign(x.num), den |-> 0]
    ELSE Frac(Sign(y.num) * x.num * y.den, x.den * Abs(y.num))

\* x > y and x < y of f64: false when either side is NaN.
FGt(x, y) ==
    /\ ~IsNaN(x)
    /\ ~IsNaN(y)
    /\ IF IsInf(x) \/ IsInf(y)
       THEN (IF IsInf(x) THEN x.num ELSE 0) > (IF IsInf(y) THEN y.num ELSE 0)
       ELSE x.num * y.den > y.num * x.den

FLt(x, y) == FGt(y, x)

FLe(x, y) == ~IsNaN(x) /\ ~IsNaN(y) /\ ~FGt(x, y)

\* f64::floor and f64::fract of a finite value.
FFloor(x) == F(x.num \div x.den)
FFract(x) == FSub(x, F(IF x.num >= 0 THEN x.num \div x.den ELSE -((-x.num) \div x.den)))

\* `x as usize` of a finite integral value: saturating at 0.
AsUsize(x) == IF x.num < 0 THEN 0 ELSE x.num \div x.den

\* 0-based indexing of a slice.
At(seq, j) == seq[j + 1]

RECURSIVE SumSeq(_)
SumSeq(seq) == IF seq = <<>> THEN F(0) ELSE FAdd(SumSeq(SubSeq(seq, 1, Len(seq) - 1)), seq[Len(seq)])

(***************************************************************************)
(* utils.rs: mavg                                                          *)
(***************************************************************************)
\* MavgStep with the positions beyond the series skipped instead of counted.
MavgStepEdgeSkipped(vv, j, we, st) ==
    IF (j < 0) \/ (j >= Len(vv))
    THEN st
    ELSE LET ve == At(vv, j) IN
         IF IsNaN(ve)
         THEN [st EXCEPT !.missing_v = @ + 1, !.missing_w = FAdd(@, we)]
         ELSE [st EXCEPT !.sum_ve_we = FAdd(@, FMul(ve, we)), !.sum_we = FAdd(@, we)]

\* One step of the window scan (lines 107-119): position j of the series
\* under weight we.
MavgStep(vv, j, we, st) ==
    IF (j < 0) \/ (j >= Len(vv))
    THEN [st EXCEPT !.missing_v = @ + 1, !.missing_w = FAdd(@, we)]
    ELSE LET ve == At(vv, j) IN
         IF IsNaN(ve)
         THEN [st EXCEPT !.missing_v = @ + 1, !.missing_w = FAdd(@, we)]
         ELSE [st EXCEPT !.sum_ve_we = FAdd(@, FMul(ve, we)), !.sum_we = FAdd(@, we)]

\* The scan of the window from its k-th weight on (lines 106-128), with the
\* break on a limit exceeded.
RECURSIVE MavgScan(_, _, _, _, _, _, _)
MavgScan(vv, ww, vl, k, st, max_v, max_w) ==
    IF k >= Len(ww) THEN st
    ELSE LET st1 == MavgStep(vv, vl + k, At(ww, k), st) IN
         IF (st1.missing_v > max_v) \/ FGt(st1.missing_w, max_w)
         THEN [st1 EXCEPT !.sum_ve_we = NaN]
         ELSE MavgScan(vv, ww, vl, k + 1, st1, max_v, max_w)

\* MavgAt normalized by the full window weight sum.
MavgAtFullSum(vv, ww, i, max_v, max_w) ==
    LET side == (Len(ww) - 1) \div 2
        st0 == [missing_v |-> 0, missing_w |-> F(0), sum_ve_we |-> F(0), sum_we |-> F(0)]
        st == MavgScan(vv, ww, i - side, 0, st0, max_v, max_w)
    IN FDiv(st.sum_ve_we, SumSeq(ww))

\* The output at position i (lines 99-129).
MavgAt(vv, ww, i, max_v, max_w) ==
    LET side == (Len(ww) - 1) \div 2
        st0 == [missing_v |-> 0, missing_w |-> F(0), sum_ve_we |-> F(0), sum_we |-> F(0)]
        st == MavgScan(vv, ww, i - side, 0, st0, max_v, max_w)
    IN FDiv(st.sum_ve_we, st.sum_we)

mavg(vv, ww, max_v, max_wpct) ==
    LET sum_all_w == SumSeq(ww)
        max_missing_w == FMul(FDiv(sum_all_w, F(100)), max_wpct)
    IN [i \in 1..Len(vv) |-> MavgAt(vv, ww, i - 1, max_v, max_missing_w)]

\* The asserts without the one on the parity of the window (lines 90-93).
MavgPreAnyParity(vv, ww) == Len(ww) < Len(vv)

\* The asserts of lines 85-93 (the same in the three moving averages).
MavgPre(vv, ww) == Len(ww) < Len(vv) /\ Len(ww) % 2 = 1

(***************************************************************************)
(* utils.rs: mavg_parallel_simd, mavg_parallel_fold                        *)
(***************************************************************************)
\* The k-th window of v.par_windows(len_w), k from 0.
ParWindow(vv, len_w, k) == SubSeq(vv, k + 1, k + len_w)

\* The number of (window, slot) pairs of the zip: the shorter of
\* par_windows(len_w) and vout[side..].
ParPairs(len_v, len_w) ==
    LET side == (len_w - 1) \div 2
        n_win == len_v - len_w + 1
        n_out == len_v - side
    IN IF n_win < n_out THEN n_win ELSE n_out

\* ParSlot with two neighbouring pairs sharing one slot.
ParSlotShared(len_w, k) == ((len_w - 1) \div 2) + 2 * (k \div 2)

\* ParSlot with the output not offset by side: vout[..] for vout[side..].
ParSlotNoOffset(len_w, k) == k

\* The slot of vout[side..] the k-th pair writes.
ParSlot(len_w, k) == ((len_w - 1) \div 2) + k

\* The closure of mavg_parallel_simd: the products collected, then summed.
SimdTask(window, ww) ==
    LET product == [j \in 1..Len(window) |-> FMul(window[j], ww[j])]
    IN FDiv(SumSeq(product), SumSeq(ww))

\* The closure of mavg_parallel_fold: multiply and accumulate in one pass.
RECURSIVE FoldFrom(_, _, _, _)
FoldFrom(window, ww, j, acc) ==
    IF j > Len(window) THEN acc
    ELSE FoldFrom(window, ww, j + 1, FAdd(acc, FMul(window[j], ww[j])))

\* FoldTask normalized by the number of weights.
FoldTaskByCount(window, ww) == FDiv(FoldFrom(window, ww, 1, F(0)), F(Len(ww)))

FoldTask(window, ww) == FDiv(FoldFrom(window, ww, 1, F(0)), SumSeq(ww))

\* The output after the join: NaN where no pair writes.
ParResult(vv, ww, simd) ==
    LET len_w == Len(ww)
        n == ParPairs(Len(vv), len_w)
    IN [i \in 1..Len(vv) |->
          LET k == (i - 1) - ParSlot(len_w, 0) IN
          IF k >= 0 /\ k < n
          THEN (IF simd THEN SimdTask(ParWindow(vv, len_w, k), ww)
                        ELSE FoldTask(ParWindow(vv, len_w, k), ww))
          ELSE NaN]

mavg_parallel_simd(vv, ww) == ParResult(vv, ww, TRUE)

mavg_parallel_fold(vv, ww) == ParResult(vv, ww, FALSE)

(***************************************************************************)
(* The inputs of the moving averages and the calls.                        *)
(***************************************************************************)
SeqsOf(S, n) == [1..n -> S]

\* Load values as the pipeline hands them to the moving average: a finite
\* value or NaN (replace_errors_with_nan has turned +Inf into NaN).
Loads == {NaN, F(0), F(1)}
Weights == {F(1), F(2)}
Pcts == {F(0), F(50), F(100)}

Series == UNION {SeqsOf(Loads, n) : n \in 2..MaxLen}
Windows == UNION {SeqsOf(Weights, n) : n \in {k \in 1..MaxLen : k % 2 = 1}}

MavgIdle ==
    /\ v = <<>> /\ w = <<>> /\ max_missing_v = 0 /\ max_missing_wpct = F(0)
    /\ vout = <<>> /\ vout_simd = <<>> /\ vout_fold = <<>> /\ m_pc = "idle"

MavgInit ==
    /\ v \in Series
    /\ w \in {ww \in Windows : MavgPre(v, ww)}
    /\ max_missing_v = 0
    /\ max_missing_wpct = F(0)
    /\ vout = <<>> /\ vout_simd = <<>> /\ vout_fold = <<>>
    /\ m_pc = "simd"

MavgParallelSimd ==
    /\ m_pc = "simd"
    /\ vout_simd' = mavg_parallel_simd(v, w)
    /\ m_pc' = "fold"
    /\ UNCHANGED <<v, w, max_missing_v, max_missing_wpct, vout, vout_fold, not_mavg_vars>>

MavgParallelFold ==
    /\ m_pc = "fold"
    /\ vout_fold' = mavg_parallel_fold(v, w)
    /\ m_pc' = "mavg"
    /\ UNCHANGED <<v, w, max_missing_v, max_missing_wpct, vout, vout_simd, not_mavg_vars>>

Mavg ==
    /\ m_pc = "mavg"
    /\ \E mv \in 0..MaxMissingV, pct \in Pcts :
          /\ max_missing_v' = mv
          /\ max_missing_wpct' = pct
          /\ vout' = mavg(v, w, mv, pct)
    /\ m_pc' = "done"
    /\ UNCHANGED <<v, w, vout_simd, vout_fold, not_mavg_vars>>

ParIdle ==
    /\ p_v = <<>> /\ p_w = <<>> /\ p_variant = "simd" /\ p_vout = <<>>
    /\ p_todo = {} /\ p_worker = <<>> /\ p_pc = "idle"

FillIdle ==
    /\ time = <<>> /\ load = <<>> /\ min_delta = 0 /\ f_i = 0 /\ current_dt = 0
    /\ f_time = <<>> /\ f_load = <<>> /\ f_pc = "idle"

IqrIdle ==
    /\ s = <<>> /\ min_len = 0 /\ q_pc = "idle"
    /\ iqr_res = [kind |-> "none", ql |-> NaN, qu |-> NaN, iqr |-> NaN, got_len |-> 0]

AnomIdle ==
    /\ a_v = <<>> /\ window_width = 0 /\ min_window_data = 0 /\ max_iqr = F(0)
    /\ a_wi = 0 /\ anomalies_index = <<>> /\ a_pc = "idle"
    /\ a_res = [index |-> <<>>, load |-> <<>>]

IdxIdle ==
    /\ x_ve = <<>> /\ x_vi = <<>> /\ x_pc = "idle"
    /\ x_res = [kind |-> "none", ve |-> <<>>]

TlIdle == tl_time = <<>> /\ tl_load = <<>> /\ tl_ops = 0 /\ tl_pc = "idle"

WinIdle ==
    /\ w_central = F(0) /\ w_side = F(0) /\ mw_side = 0 /\ mw_window = <<>>
    /\ mw_pc = "idle"

CallIdle ==
    /\ c_v = <<>> /\ c_w = <<>> /\ c_pc = "idle"
    /\ c_res = [kind |-> "none", fn |-> "none", vout |-> <<>>]

AwatIdle ==
    /\ aw_len_v = 0 /\ aw_len_w = 0 /\ ssrs = <<>> /\ ssd = F(0) /\ aics = <<>>
    /\ aw_pc = "idle"
    /\ aw_res = [kind |-> "none", k_best |-> 0, b |-> NaN]

\* The state of the functions a specification does not call.
HourIdle ==
    /\ h_time = <<>> /\ h_load = <<>> /\ h_pc = "idle"
    /\ h_res = [kind |-> "none", time |-> <<>>, load |-> <<>>]

LogIdle ==
    /\ dt_now = 0 /\ minutes = 0 /\ l_offset = 0 /\ l_now = 0 /\ dtr = 0 /\ dtr_next = 0
    /\ connection_ok = TRUE /\ rows = <<>> /\ l_pc = "idle"

LateIdle == HourIdle /\ LogIdle

MoreIdle == AnomIdle /\ IdxIdle /\ TlIdle /\ WinIdle /\ CallIdle /\ AwatIdle

BaseIdle == MavgIdle /\ ParIdle /\ FillIdle /\ IqrIdle

SpecMavgInit == MavgInit /\ ParIdle /\ FillIdle /\ IqrIdle /\ MoreIdle /\ LateIdle

SpecMavgNext == MavgParallelSimd \/ MavgParallelFold \/ Mavg

SpecMavg == SpecMavgInit /\ [][SpecMavgNext]_vars

(***************************************************************************)
(* utils.rs: the parallel moving averages as rayon runs them.  The zip of  *)
(* par_windows and par_iter_mut is split into one task per (window, slot)  *)
(* pair; a worker thread takes a pair nobody has taken, evaluates the      *)
(* closure on the window and stores the result through its slot reference; *)
(* for_each returns when every pair is done (the join).                    *)
(***************************************************************************)
\* The closure's value for pair k.
TaskValue(vv, ww, variant, k) ==
    IF variant = "simd" THEN SimdTask(ParWindow(vv, Len(ww), k), ww)
    ELSE FoldTask(ParWindow(vv, Len(ww), k), ww)

NoTask == -1

ParSeries == SeqsOf(Loads, ParLen)
ParWindows == UNION {SeqsOf(Weights, n) : n \in {k \in 1..(ParLen - 1) : k % 2 = 1}}

\* let mut vout = vec![f64::NAN; len_v], and the pairs of the zip.
ParInit ==
    /\ p_v \in ParSeries
    /\ p_w \in {ww \in ParWindows : MavgPre(p_v, ww)}
    /\ p_variant \in {"simd", "fold"}
    /\ p_vout = [i \in 1..Len(p_v) |-> NaN]
    /\ p_todo = 0..(ParPairs(Len(p_v), Len(p_w)) - 1)
    /\ \E n \in 1..MaxWorkers : p_worker = [i \in 1..n |-> [task |-> NoTask, val |-> NaN]]
    /\ p_pc = "for_each"

\* A free worker takes a pair and evaluates the closure's right-hand side.
ParTake(wk, k) ==
    /\ p_pc = "for_each"
    /\ p_worker[wk].task = NoTask
    /\ k \in p_todo
    /\ p_todo' = p_todo \ {k}
    /\ p_worker' = [p_worker EXCEPT ![wk] = [task |-> k, val |-> TaskValue(p_v, p_w, p_variant, k)]]
    /\ UNCHANGED <<p_v, p_w, p_variant, p_vout, p_pc, not_par_vars>>

\* The worker stores the value: *vout_e = ...
ParWrite(wk) ==
    /\ p_pc = "for_each"
    /\ p_worker[wk].task # NoTask
    /\ p_vout' = [p_vout EXCEPT ![ParSlot(Len(p_w), p_worker[wk].task) + 1] = p_worker[wk].val]
    /\ p_worker' = [p_worker EXCEPT ![wk] = [task |-> NoTask, val |-> NaN]]
    /\ UNCHANGED <<p_v, p_w, p_variant, p_todo, p_pc, not_par_vars>>

\* for_each returns: every pair is done.
ParJoin ==
    /\ p_pc = "for_each"
    /\ p_todo = {}
    /\ \A wk \in DOMAIN p_worker : p_worker[wk].task = NoTask
    /\ p_pc' = "joined"
    /\ UNCHANGED <<p_v, p_w, p_variant, p_vout, p_todo, p_worker, not_par_vars>>

SpecParInit == MavgIdle /\ ParInit /\ FillIdle /\ IqrIdle /\ MoreIdle /\ LateIdle

SpecParNext ==
    \/ \E wk \in DOMAIN p_worker, k \in p_todo : ParTake(wk, k)
    \/ \E wk \in DOMAIN p_worker : ParWrite(wk)
    \/ ParJoin

SpecPar == SpecParInit /\ [][SpecParNext]_vars

(***************************************************************************)
(* lib.rs: TimeLoad::fill_missing_with_nan, one action per loop step, and  *)
(* the check load_process runs on its result.  Timestamps are integers (a  *)
(* number of seconds), durations their differences.                        *)
(***************************************************************************)
SetMin(S) == CHOOSE x \in S : \A y \in S : x <= y

\* self.time.windows(2).map(|dtw| dtw[1] - dtw[0])
Deltas(tt) == {tt[i + 1] - tt[i] : i \in 1..(Len(tt) - 1)}

StrictlyIncreasing(tt) == \A i \in 1..(Len(tt) - 1) : tt[i] < tt[i + 1]

\* The series load_process hands over: is_ordered() has passed (line 67).
FillTimes ==
    {tt \in UNION {SeqsOf(0..MaxTime, n) : n \in 2..(MaxTime + 1)} : StrictlyIncreasing(tt)}

FillLoads == {NaN, F(1), F(2)}

FillInit ==
    /\ time \in FillTimes
    /\ load \in SeqsOf(FillLoads, Len(time))
    /\ min_delta = 0 /\ f_i = 0 /\ current_dt = 0
    /\ f_time = <<>> /\ f_load = <<>>
    /\ f_pc = "min_delta"

\* Lines 128-134: the minimum delta (unwrap panics without a pair) and the
\* new TimeLoad.
FillMinDelta ==
    /\ f_pc = "min_delta"
    /\ IF Deltas(time) = {}
       THEN f_pc' = "panic_unwrap" /\ UNCHANGED min_delta
       ELSE f_pc' = "for" /\ min_delta' = SetMin(Deltas(time))
    /\ UNCHANGED <<time, load, f_i, current_dt, f_time, f_load, not_fill_vars>>

\* The number of (dtw, load) pairs of the zip of line 135.
FillPairs == IF Len(time) - 1 < Len(load) THEN Len(time) - 1 ELSE Len(load)

\* Lines 135-138: the next pair; its first datetime and its load are pushed.
FillFor ==
    /\ f_pc = "for"
    /\ f_i < FillPairs
    /\ current_dt' = At(time, f_i)
    /\ f_time' = Append(f_time, At(time, f_i))
    /\ f_load' = Append(f_load, At(load, f_i))
    /\ f_pc' = "while"
    /\ UNCHANGED <<time, load, min_delta, f_i, not_fill_vars>>

\* FillWhile with <= for < in the loop condition.
FillWhileInclusive ==
    /\ f_pc = "while"
    /\ IF current_dt + min_delta <= At(time, f_i + 1)
       THEN /\ current_dt' = current_dt + min_delta
            /\ f_time' = Append(f_time, current_dt + min_delta)
            /\ f_load' = Append(f_load, NaN)
            /\ UNCHANGED <<f_i, f_pc>>
       ELSE /\ f_i' = f_i + 1
            /\ f_pc' = "for"
            /\ UNCHANGED <<current_dt, f_time, f_load>>
    /\ UNCHANGED <<time, load, min_delta, not_fill_vars>>

\* The model follows the loop for FillCap pushes, more than any filled
\* series over 0..MaxTime holds.
FillCap == MaxTime + 2

\* FillWhile with current_dt left as it is by the body of the loop.
FillWhileNotAdvancing ==
    /\ f_pc = "while"
    /\ IF current_dt + min_delta < At(time, f_i + 1)
       THEN /\ Len(f_time) < FillCap
            /\ current_dt' = current_dt
            /\ f_time' = Append(f_time, current_dt + min_delta)
            /\ f_load' = Append(f_load, NaN)
            /\ UNCHANGED <<f_i, f_pc>>
       ELSE /\ f_i' = f_i + 1
            /\ f_pc' = "for"
            /\ UNCHANGED <<current_dt, f_time, f_load>>
    /\ UNCHANGED <<time, load, min_delta, not_fill_vars>>

\* Lines 139-143: one test of the while condition, and its body.
FillWhile ==
    /\ f_pc = "while"
    /\ IF current_dt + min_delta < At(time, f_i + 1)
       THEN /\ Len(f_time) < FillCap
            /\ current_dt' = current_dt + min_delta
            /\ f_time' = Append(f_time, current_dt + min_delta)
            /\ f_load' = Append(f_load, NaN)
            /\ UNCHANGED <<f_i, f_pc>>
       ELSE /\ f_i' = f_i + 1
            /\ f_pc' = "for"
            /\ UNCHANGED <<current_dt, f_time, f_load>>
    /\ UNCHANGED <<time, load, min_delta, not_fill_vars>>

\* Lines 145-147: the last point.
FillLast ==
    /\ f_pc = "for"
    /\ f_i >= FillPairs
    /\ f_time' = Append(f_time, At(time, Len(time) - 1))
    /\ f_load' = Append(f_load, At(load, Len(load) - 1))
    /\ f_pc' = "filled"
    /\ UNCHANGED <<time, load, min_delta, f_i, current_dt, not_fill_vars>>

\* lib.rs:111-122: the asserts of is_ordered_and_continuous hold of tt.
is_ordered_and_continuous(tt) ==
    /\ \A i \in 1..(Len(tt) - 1) : tt[i + 1] > tt[i]
    /\ \A i \in 1..(Len(tt) - 2) : tt[i + 1] - tt[i] = tt[i + 2] - tt[i + 1]

\* load_process.rs:73: ftl.is_ordered_and_continuous().
CheckContinuous ==
    /\ f_pc = "filled"
    /\ f_pc' = IF is_ordered_and_continuous(f_time) THEN "continuous" ELSE "panic_not_continuous"
    /\ UNCHANGED <<time, load, min_delta, f_i, current_dt, f_time, f_load, not_fill_vars>>

SpecFillInit == MavgIdle /\ ParIdle /\ FillInit /\ IqrIdle /\ MoreIdle /\ LateIdle

SpecFillNext == FillMinDelta \/ FillFor \/ FillWhile \/ FillLast \/ CheckContinuous

SpecFill == SpecFillInit /\ [][SpecFillNext]_vars

\* fill_missing_with_nan called on any two or three timestamps, in order or
\* not (the function is public and checks nothing itself), the program
\* running on until it ends.
FillAnyTimes == UNION {SeqsOf(0..MaxTime, n) : n \in 2..3}

FillAnyInit ==
    /\ time \in FillAnyTimes
    /\ load \in SeqsOf({NaN, F(1)}, Len(time))
    /\ min_delta = 0 /\ f_i = 0 /\ current_dt = 0
    /\ f_time = <<>> /\ f_load = <<>>
    /\ f_pc = "min_delta"

SpecFillAnyInit == MavgIdle /\ ParIdle /\ FillAnyInit /\ IqrIdle /\ MoreIdle /\ LateIdle

SpecFillAny == SpecFillAnyInit /\ [][SpecFillNext]_vars /\ WF_vars(SpecFillNext)

(***************************************************************************)
(* utils.rs: calculate_iqr                                                 *)
(***************************************************************************)
\* s.iter().filter(|n| n.is_finite()).collect()
RECURSIVE FilterFinite(_)
FilterFinite(seq) ==
    IF seq = <<>> THEN <<>>
    ELSE IF IsFinite(Head(seq)) THEN <<Head(seq)>> \o FilterFinite(Tail(seq))
    ELSE FilterFinite(Tail(seq))

\* x put into the ascending sequence seq, behind the elements not above it.
RECURSIVE Insert(_, _)
Insert(x, seq) ==
    IF seq = <<>> THEN <<x>>
    ELSE IF FGt(Head(seq), x) THEN <<x>> \o seq
    ELSE <<Head(seq)>> \o Insert(x, Tail(seq))

\* v.sort_by(|a, b| a.partial_cmp(&b).unwrap()): a stable ascending sort.
RECURSIVE SortAsc(_)
SortAsc(seq) ==
    IF seq = <<>> THEN <<>> ELSE Insert(seq[Len(seq)], SortAsc(SubSeq(seq, 1, Len(seq) - 1)))

\* The index j is within the vector (else the indexing panics).
InBounds(seq, j) == j >= 0 /\ j < Len(seq)

IqrResult(kind, ql, qu, iqr, got_len) ==
    [kind |-> kind, ql |-> ql, qu |-> qu, iqr |-> iqr, got_len |-> got_len]

\* QuantileRank without the - 1. of the zero-based rank: h = N * q.
QuantileRankOneBased(v_len, q) == FMul(F(v_len), q)

\* Lines 386-387: h = (v_len as f64 - 1.) * q.
QuantileRank(v_len, q) == FMul(FSub(F(v_len), F(1)), q)

\* Lines 373-400. kind is "Ok", "Err" (the LenErr) or "panic" (an index out of
\* bounds).
calculate_iqr(ss, mlen) ==
    LET unsorted == FilterFinite(ss)
        v_len == Len(unsorted)
    IN IF v_len < mlen THEN IqrResult("Err", NaN, NaN, NaN, v_len)
       ELSE LET vs == SortAsc(unsorted)
                hl == QuantileRank(v_len, Frac(1, 4))
                hu == QuantileRank(v_len, Frac(3, 4))
                hl_int == AsUsize(FFloor(hl))
                hl_fract == FFract(hl)
                hu_int == AsUsize(FFloor(hu))
                hu_fract == FFract(hu)
            IN IF ~(InBounds(vs, hl_int) /\ InBounds(vs, hu_int)
                    /\ InBounds(vs, hl_int + 1) /\ InBounds(vs, hu_int + 1))
               THEN IqrResult("panic", NaN, NaN, NaN, v_len)
               ELSE LET ql_int == At(vs, hl_int)
                        qu_int == At(vs, hu_int)
                        ql_fract == FMul(FSub(At(vs, hl_int + 1), At(vs, hl_int)), hl_fract)
                        qu_fract == FMul(FSub(At(vs, hu_int + 1), At(vs, hu_int)), hu_fract)
                        ql == FAdd(ql_int, ql_fract)
                        qu == FAdd(qu_int, qu_fract)
                    IN IqrResult("Ok", ql, qu, FSub(qu, ql), v_len)

SampleValues == {NaN, PInf, NInf} \cup {F(n) : n \in 0..MaxSample}

Samples == UNION {SeqsOf(SampleValues, n) : n \in 0..MaxSampleLen}

IqrInit ==
    /\ s \in Samples
    /\ min_len = 0
    /\ iqr_res = IqrResult("none", NaN, NaN, NaN, 0)
    /\ q_pc = "call"

\* A call calculate_iqr(&s, min_len).
CalculateIqr ==
    /\ q_pc = "call"
    /\ \E mlen \in 0..MaxMinLen :
          /\ min_len' = mlen
          /\ iqr_res' = calculate_iqr(s, mlen)
    /\ q_pc' = "returned"
    /\ UNCHANGED <<s, not_iqr_vars>>

SpecIqrInit == MavgIdle /\ ParIdle /\ FillIdle /\ IqrInit /\ MoreIdle /\ LateIdle

SpecIqrNext == CalculateIqr

SpecIqr == SpecIqrInit /\ [][SpecIqrNext]_vars

(***************************************************************************)
(* Claims C1-C4: the moving averages.                                      *)
(***************************************************************************)
Side(ww) == (Len(ww) - 1) \div 2

\* The position j (0-based, possibly beyond the series) holds no value.
IsMissing(vv, j) == j < 0 \/ j >= Len(vv) \/ IsNaN(At(vv, j))

\* The window positions of output position i that hold no value.
MissingPos(vv, ww, i) == {j \in (i - Side(ww))..(i + Side(ww)) : IsMissing(vv, j)}

PresentPos(vv, ww, i) == {j \in (i - Side(ww))..(i + Side(ww)) : ~IsMissing(vv, j)}

\* The weight of window position j of output position i.
WeightOf(ww, i, j) == At(ww, j - i + Side(ww))

RECURSIVE SumOver(_, _, _)
SumOver(S, f(_), acc) ==
    IF S = {} THEN acc
    ELSE LET x == CHOOSE y \in S : TRUE IN SumOver(S \ {x}, f, FAdd(acc, f(x)))

MissingWeight(vv, ww, i) ==
    LET wt(j) == WeightOf(ww, i, j) IN SumOver(MissingPos(vv, ww, i), wt, F(0))

PresentWeight(vv, ww, i) ==
    LET wt(j) == WeightOf(ww, i, j) IN SumOver(PresentPos(vv, ww, i), wt, F(0))

PresentValue(vv, ww, i) ==
    LET vw(j) == FMul(At(vv, j), WeightOf(ww, i, j)) IN SumOver(PresentPos(vv, ww, i), vw, F(0))

\* (a): more missing positions than max_missing_v.
TooManyMissing(i) == Cardinality(MissingPos(v, w, i)) > max_missing_v

\* (b): the missing weight is above sum(w) * max_missing_wpct / 100.
TooMuchWeightMissing(i) ==
    FGt(FMul(MissingWeight(v, w, i), F(100)), FMul(SumSeq(w), max_missing_wpct))

\* (c): no window position holds a value.
NothingPresent(i) == PresentPos(v, w, i) = {}

\* C1: after mavg, the output at position i is NaN exactly when the window of
\* i has more than max_missing_v positions that are out of range or NaN, or
\* the weight of those positions exceeds sum(w) * max_missing_wpct / 100, or
\* no position of the window holds a value.
C1_MissingIff ==
    m_pc = "done" =>
        /\ Len(vout) = Len(v)
        /\ \A i \in 0..(Len(v) - 1) :
              IsNaN(At(vout, i)) <=>
                  (TooManyMissing(i) \/ TooMuchWeightMissing(i) \/ NothingPresent(i))

\* An edge position whose output is NaN by the weight limit alone, with an
\* out-of-range position counted in the missing weight.
C1_Witness ==
    /\ m_pc = "done"
    /\ \E i \in 0..(Len(v) - 1) :
          /\ IsNaN(At(vout, i))
          /\ TooMuchWeightMissing(i) /\ ~TooManyMissing(i) /\ ~NothingPresent(i)
          /\ \E j \in MissingPos(v, w, i) : j < 0 \/ j >= Len(v)
    /\ \E i \in 0..(Len(v) - 1) : IsFinite(At(vout, i))

\* The sum of value * weight over the present window positions divided by the
\* sum of their weights.
Renormalized(i) == FDiv(PresentValue(v, w, i), PresentWeight(v, w, i))

C2_Post ==
    \A i \in 0..(Len(v) - 1) :
        (~TooManyMissing(i) /\ ~TooMuchWeightMissing(i) /\ ~NothingPresent(i))
            => At(vout, i) = Renormalized(i)

\* C2: a call of mavg leaves the series and the window as they are, and where
\* neither limit is exceeded and a window value is present, its output is the
\* weighted sum of the present values divided by the sum of their weights.
C2_Renormalized ==
    /\ [](m_pc = "done" => C2_Post)
    /\ [][m_pc' = "done" => (v' = v /\ w' = w)]_vars

\* A NaN at the center is replaced by an average that differs from the one
\* normalized by the full window weight sum.
C2_Witness ==
    /\ m_pc = "done"
    /\ \E i \in 0..(Len(v) - 1) :
          /\ IsNaN(At(v, i))
          /\ IsFinite(At(vout, i))
          /\ At(vout, i) = Renormalized(i)
          /\ At(vout, i) # FDiv(PresentValue(v, w, i), SumSeq(w))

GapFree(vv) == \A j \in 1..Len(vv) : IsFinite(vv[j])

Interior(vv, ww) == Side(ww)..(Len(vv) - Side(ww) - 1)

\* C3: on a series without gaps the three moving averages return sequences
\* of the length of the input that agree at every interior position.
C3_Agree ==
    (m_pc = "done" /\ GapFree(v)) =>
        /\ Len(vout) = Len(v) /\ Len(vout_simd) = Len(v) /\ Len(vout_fold) = Len(v)
        /\ \A i \in Interior(v, w) :
              /\ At(vout, i) = At(vout_simd, i)
              /\ At(vout, i) = At(vout_fold, i)

C3_Witness ==
    /\ m_pc = "done" /\ GapFree(v) /\ Len(w) = 3 /\ max_missing_v = 0
    /\ max_missing_wpct = F(0)
    /\ w[1] # w[3]
    /\ \E i \in Interior(v, w) :
          /\ IsFinite(At(vout, i)) /\ At(vout, i) = At(vout_fold, i)
          /\ At(vout, i) # At(v, i)

\* The weighted sum of the full window of position i over the full weight sum.
FullWindow(vv, ww, i) ==
    LET vw(j) == FMul(At(vv, j), WeightOf(ww, i, j))
    IN FDiv(SumOver((i - Side(ww))..(i + Side(ww)), vw, F(0)), SumSeq(ww))

\* C4: the parallel moving averages return a sequence of the length of the
\* input that is NaN at the first and the last side positions and, at every
\* other position, the full-window weighted sum over the full weight sum (NaN
\* when a window value is NaN); the two variants agree everywhere.
C4_Parallel ==
    m_pc \in {"mavg", "done"} =>
        /\ Len(vout_simd) = Len(v)
        /\ vout_fold = vout_simd
        /\ \A i \in 0..(Len(v) - 1) :
              IF i \in Interior(v, w)
              THEN /\ At(vout_simd, i) = FullWindow(v, w, i)
                   /\ (MissingPos(v, w, i) # {} => IsNaN(At(vout_simd, i)))
              ELSE IsNaN(At(vout_simd, i))

C4_Witness ==
    /\ m_pc = "mavg" /\ Len(w) = 3 /\ Len(v) = 5
    /\ IsFinite(At(v, 0)) /\ IsFinite(At(v, 4))
    /\ IsNaN(At(vout_fold, 0)) /\ IsNaN(At(vout_fold, 4))
    /\ IsFinite(At(vout_fold, 1)) /\ At(vout_fold, 1) # At(v, 1)
    /\ IsNaN(At(v, 4 - 1)) /\ IsNaN(At(vout_fold, 3))

(***************************************************************************)
(* Claim C5: the parallel evaluation.                                      *)
(***************************************************************************)
\* The pairs evaluated one after another in index order, from pair k on.
RECURSIVE InOrder(_, _, _, _, _)
InOrder(vv, ww, variant, k, out) ==
    IF k >= ParPairs(Len(vv), Len(ww)) THEN out
    ELSE InOrder(vv, ww, variant, k + 1,
                 [out EXCEPT ![ParSlot(Len(ww), k) + 1] = TaskValue(vv, ww, variant, k)])

\* C5: a step of a worker leaves the series and the window as they are and
\* changes at most one output slot, and after the join the output is the one
\* of the pairs evaluated one after another in index order, whatever the
\* number of workers and the order in which they took and stored the pairs.
C5_OrderIrrelevant ==
    /\ [](p_pc = "joined" =>
            p_vout = InOrder(p_v, p_w, p_variant, 0, [i \in 1..Len(p_v) |-> NaN]))
    /\ [][/\ p_v' = p_v
          /\ p_w' = p_w
          /\ Cardinality({i \in DOMAIN p_vout : p_vout'[i] # p_vout[i]}) <= 1]_vars

\* Joined with two workers, all interior slots holding distinct finite values.
C5_Witness ==
    /\ p_pc = "joined"
    /\ Len(p_worker) >= 2
    /\ \A i \in Interior(p_v, p_w) : IsFinite(At(p_vout, i))
    /\ \E i, j \in Interior(p_v, p_w) : At(p_vout, i) # At(p_vout, j)

(***************************************************************************)
(* Claims C6-C8: the gap filler.                                           *)
(***************************************************************************)
\* fill_missing_with_nan has returned.
Filled == f_pc \in {"filled", "continuous", "panic_not_continuous"}

MinDeltaOf(tt) == SetMin(Deltas(tt))

\* The input timestamps and, between two consecutive ones, the first plus
\* every multiple of the minimum delta that stays below the second.
ExpectedTimes(tt) ==
    {tt[i] : i \in 1..Len(tt)} \cup
    UNION {{tt[i] + j * MinDeltaOf(tt) :
               j \in {n \in 1..(tt[i + 1] - tt[i]) : tt[i] + n * MinDeltaOf(tt) < tt[i + 1]}} :
           i \in 1..(Len(tt) - 1)}

\* The output points strictly between the i-th input timestamp and the next.
Between(i) == {k \in DOMAIN f_time : time[i] < f_time[k] /\ f_time[k] < time[i + 1]}

C6_Post ==
    /\ Len(f_load) = Len(f_time)
    /\ StrictlyIncreasing(f_time)
    /\ {f_time[k] : k \in DOMAIN f_time} = ExpectedTimes(time)
    /\ \A k \in DOMAIN f_time :
          IF \E i \in DOMAIN time : time[i] = f_time[k]
          THEN \E i \in DOMAIN time : time[i] = f_time[k] /\ f_load[k] = load[i]
          ELSE IsNaN(f_load[k])
    /\ \A i \in 1..(Len(time) - 1) :
          /\ time[i + 1] - time[i] = MinDeltaOf(time) => Between(i) = {}
          /\ time[i + 1] - time[i] = 2 * MinDeltaOf(time) => Cardinality(Between(i)) = 1
    /\ Cardinality(Deltas(time)) = 1 => (f_time = time /\ f_load = load)

\* C6: on a strictly increasing series of two points or more,
\* fill_missing_with_nan returns the input points with their values and, in
\* each gap, the points t[i] + j * minDelta below t[i+1] with NaN, in
\* increasing order of time, and leaves its input as it is.
C6_Filled ==
    /\ [](Filled => C6_Post)
    /\ [][time' = time /\ load' = load]_vars

\* A series with a gap of twice the minimum delta, filled with one point,
\* that holds a value and a NaN of its own.
C6_Witness ==
    /\ Filled
    /\ \E i \in 1..(Len(time) - 1) :
          time[i + 1] - time[i] = 2 * min_delta /\ Cardinality(Between(i)) = 1
    /\ Len(f_time) = Len(time) + 1
    /\ \E i \in DOMAIN load : ~IsNaN(load[i])
    /\ \E i \in DOMAIN load : IsNaN(load[i])

\* C7: the filled series has the constant spacing minDelta, and the check of
\* load_process on it never fails.
C7_ConstantSpacing ==
    /\ Filled => \A k \in 1..(Len(f_time) - 1) : f_time[k + 1] - f_time[k] = MinDeltaOf(time)
    /\ f_pc # "panic_not_continuous"

\* C8 as stated: a gap that is an exact multiple of minDelta gets no
\* synthetic point.
C8_NoPointInMultipleGap ==
    Filled => \A i \in 1..(Len(time) - 1) :
                 (time[i + 1] - time[i]) % MinDeltaOf(time) = 0 => Between(i) = {}

\* C8, amended: a gap of k times minDelta gets exactly k - 1 synthetic
\* points (none when k = 1), and the point that closes the gap is in the
\* output once.
C8_MultipleGap ==
    Filled => \A i \in 1..(Len(time) - 1) :
                 (time[i + 1] - time[i]) % MinDeltaOf(time) = 0 =>
                     /\ Cardinality(Between(i)) = ((time[i + 1] - time[i]) \div MinDeltaOf(time)) - 1
                     /\ \A k \in Between(i) : IsNaN(f_load[k])
                     /\ Cardinality({k \in DOMAIN f_time : f_time[k] = time[i + 1]}) = 1

\* A gap of three times the minimum delta, filled with two points.
C8_Witness ==
    /\ Filled
    /\ \E i \in 1..(Len(time) - 1) :
          time[i + 1] - time[i] = 3 * min_delta /\ Cardinality(Between(i)) = 2

(***************************************************************************)
(* Claims C9-C10: the quartile estimator.                                  *)
(***************************************************************************)
FinitePos(ss) == {i \in DOMAIN ss : IsFinite(ss[i])}

\* The k-th smallest (k from 0) of the finite values of ss, by counting: the
\* value with at most k finite entries below it and more than k not above it.
KthSmallest(ss, k) ==
    LET x == CHOOSE y \in {ss[i] : i \in FinitePos(ss)} :
                 /\ Cardinality({i \in FinitePos(ss) : FLt(ss[i], y)}) <= k
                 /\ Cardinality({i \in FinitePos(ss) : FLe(ss[i], y)}) > k
    IN x

\* The R-7 quantile q = qn/4 of the finite values of ss: with h = (n-1)*q,
\* s[floor(h)] + (h - floor(h)) * (s[floor(h)+1] - s[floor(h)]).
R7(ss, qn) ==
    LET n == Cardinality(FinitePos(ss))
        fl == ((n - 1) * qn) \div 4
        fr == Frac(((n - 1) * qn) % 4, 4)
        lo == KthSmallest(ss, fl)
        hi == KthSmallest(ss, fl + 1)
    IN FAdd(lo, FMul(fr, FSub(hi, lo)))

Reversed(ss) == [i \in 1..Len(ss) |-> ss[Len(ss) + 1 - i]]

\* C9: on a sample with n >= 2 finite values (and min_len <= n),
\* calculate_iqr returns the R-7 quartiles of the finite values and their
\* difference, with lower <= upper, and the same for the sample in reverse
\* order.
C9_R7 ==
    (q_pc = "returned" /\ Cardinality(FinitePos(s)) >= 2
                       /\ min_len <= Cardinality(FinitePos(s))) =>
        /\ iqr_res.kind = "Ok"
        /\ iqr_res.ql = R7(s, 1)
        /\ iqr_res.qu = R7(s, 3)
        /\ iqr_res.iqr = FSub(iqr_res.qu, iqr_res.ql)
        /\ FLe(iqr_res.ql, iqr_res.qu)
        /\ FLe(F(0), iqr_res.iqr)
        /\ calculate_iqr(Reversed(s), min_len) = iqr_res

\* An unsorted sample of four finite values among non-finite ones, with
\* interpolated quartiles.
C9_Witness ==
    /\ q_pc = "returned"
    /\ Cardinality(FinitePos(s)) = 4
    /\ Len(s) = 5
    /\ \E i \in 1..(Len(s) - 1) : IsFinite(s[i]) /\ IsFinite(s[i + 1]) /\ FGt(s[i], s[i + 1])
    /\ iqr_res.kind = "Ok"
    /\ iqr_res.ql.den = 4
    /\ iqr_res.qu.den = 4
    /\ FGt(iqr_res.iqr, F(0))

\* C10: calculate_iqr returns the length error exactly when the number of
\* finite values is below min_len, and a triple in every other case.
C10_ErrIff ==
    q_pc = "returned" =>
        IF Cardinality(FinitePos(s)) < min_len
        THEN iqr_res.kind = "Err"
        ELSE iqr_res.kind = "Ok"

(***************************************************************************)
(* utils.rs: find_anomalies, one action for the parameter checks, one per  *)
(* window of the scan and one for the sort, the deduplication and the      *)
(* collection of the loads.                                                *)
(***************************************************************************)
MIN_DATA_IQR == 6
MaxAnomLen == 7
MaxWidth == 7

\* Lines 329-337: the panics on the parameters, else the scan.
FindPreStrictWidth(ww, mwd) ==
    IF mwd < MIN_DATA_IQR THEN "panic_min_data"
    ELSE IF mwd >= ww THEN "panic_width"
    ELSE "scan"

FindPre(ww, mwd) ==
    IF mwd < MIN_DATA_IQR THEN "panic_min_data"
    ELSE IF mwd > ww THEN "panic_width"
    ELSE "scan"

\* Line 347 with >= for >.
IsAnomalousInclusive(iqr, mx) == FGt(iqr, mx) \/ iqr = mx

\* Line 347: iqr > max_iqr.
IsAnomalous(iqr, mx) == FGt(iqr, mx)

\* x put into the ascending sequence of indices seq.
RECURSIVE InsertUsize(_, _)
InsertUsize(x, seq) ==
    IF seq = <<>> THEN <<x>>
    ELSE IF Head(seq) > x THEN <<x>> \o seq
    ELSE <<Head(seq)>> \o InsertUsize(x, Tail(seq))

\* The ascending sort of a vector of indices.
RECURSIVE SortUsize(_)
SortUsize(seq) ==
    IF seq = <<>> THEN <<>>
    ELSE InsertUsize(seq[Len(seq)], SortUsize(SubSeq(seq, 1, Len(seq) - 1)))

\* partition_dedup_by(|a, b| a == b): the first part, each run of equal
\* consecutive elements reduced to its first.
RECURSIVE PartitionDedup(_)
PartitionDedup(seq) ==
    IF Len(seq) <= 1 THEN seq
    ELSE IF seq[1] = seq[2] THEN PartitionDedup(Tail(seq))
    ELSE <<seq[1]>> \o PartitionDedup(Tail(seq))

\* UniqueSorted without the sort of line 354.
UniqueSortedNoSort(idx) == PartitionDedup(idx)

\* Lines 354-356.
UniqueSorted(idx) == PartitionDedup(SortUsize(idx))

\* indices.windows(window_width): the window that starts at index k.
IndexWindow(k, ww) == [j \in 1..ww |-> k + j - 1]

AnomValues == {NaN, F(0), F(1)}
AnomSeries == UNION {SeqsOf(AnomValues, n) : n \in 0..MaxAnomLen}
AnomWidths == (MIN_DATA_IQR - 1)..MaxWidth
MaxIqrs == {F(-1), F(0), Frac(1, 2), F(1)}

FindInit ==
    /\ a_v \in AnomSeries
    /\ window_width = 0 /\ min_window_data = 0 /\ max_iqr = F(0)
    /\ a_wi = 0 /\ anomalies_index = <<>>
    /\ a_res = [index |-> <<>>, load |-> <<>>]
    /\ a_pc = "call"

\* Lines 321-339: the call and its parameter checks.
FindCheck ==
    /\ a_pc = "call"
    /\ \E ww \in AnomWidths, mwd \in AnomWidths, mx \in MaxIqrs :
          /\ window_width' = ww
          /\ min_window_data' = mwd
          /\ max_iqr' = mx
          /\ a_pc' = FindPre(ww, mwd)
    /\ UNCHANGED <<a_v, a_wi, anomalies_index, a_res, not_anom_vars>>

\* Lines 340-350: the next window of the scan.
FindWindow ==
    /\ a_pc = "scan"
    /\ a_wi + window_width <= Len(a_v)
    /\ LET wl == SubSeq(a_v, a_wi + 1, a_wi + window_width)
           wi == IndexWindow(a_wi, window_width)
           r == calculate_iqr(wl, min_window_data)
       IN IF r.kind = "panic"
          THEN a_pc' = "panic_index" /\ UNCHANGED <<a_wi, anomalies_index>>
          ELSE /\ a_pc' = "scan"
               /\ a_wi' = a_wi + 1
               /\ anomalies_index' =
                     IF r.kind = "Ok" /\ IsAnomalous(r.iqr, max_iqr)
                     THEN anomalies_index \o wi
                     ELSE anomalies_index
    /\ UNCHANGED <<a_v, window_width, min_window_data, max_iqr, a_res, not_anom_vars>>

\* Lines 351-361: no window is left.
FindReturn ==
    /\ a_pc = "scan"
    /\ a_wi + window_width > Len(a_v)
    /\ LET anomalies_index_dedup == UniqueSorted(anomalies_index)
       IN a_res' = [index |-> anomalies_index_dedup,
                    load |-> [j \in 1..Len(anomalies_index_dedup) |->
                                 At(a_v, anomalies_index_dedup[j])]]
    /\ a_pc' = "returned"
    /\ UNCHANGED <<a_v, window_width, min_window_data, max_iqr, a_wi, anomalies_index,
                   not_anom_vars>>

SpecAnomInit == BaseIdle /\ FindInit /\ IdxIdle /\ TlIdle /\ WinIdle /\ CallIdle /\ AwatIdle /\ LateIdle

SpecAnomNext == FindCheck \/ FindWindow \/ FindReturn

SpecAnom == SpecAnomInit /\ [][SpecAnomNext]_vars

(***************************************************************************)
(* Claims C11, C12, C20: the anomaly detector.                             *)
(***************************************************************************)
\* The window of the series that starts at index k.
AnomWindow(k) == SubSeq(a_v, k + 1, k + window_width)

WindowStarts == {k \in 0..Len(a_v) : k + window_width <= Len(a_v)}

\* The window at k has min_window_data finite values or more and its R-7
\* interquartile range is above max_iqr.
Flagged(k) ==
    /\ Cardinality(FinitePos(AnomWindow(k))) >= min_window_data
    /\ FGt(FSub(R7(AnomWindow(k), 3), R7(AnomWindow(k), 1)), max_iqr)

ReturnedIndices == {a_res.index[j] : j \in DOMAIN a_res.index}

\* With 6 <= min_window_data <= window_width, index i is returned exactly
\* when a window that contains i is flagged, and no window raises an error.
C11_Iff ==
    /\ a_pc # "panic_index"
    /\ a_pc = "returned" =>
          /\ ReturnedIndices \subseteq 0..(Len(a_v) - 1)
          /\ \A i \in 0..(Len(a_v) - 1) :
                i \in ReturnedIndices <=>
                    \E k \in WindowStarts : k <= i /\ i <= k + window_width - 1 /\ Flagged(k)
          /\ (Len(a_v) < window_width => a_res.index = <<>>)
          /\ ((\A k \in WindowStarts : ~Flagged(k)) => a_res.index = <<>>)

ConstantSeries(vv) == \A i \in DOMAIN vv : IsFinite(vv[i]) /\ vv[i] = vv[1]

\* C11 as stated: index i is returned exactly when a window containing i
\* has at least min_window_data finite values and an IQR strictly above
\* max_iqr; other windows contribute nothing and raise no error; a series
\* shorter than the window, a series without such a window and every
\* constant series give an empty result.
C11_ConstantAlwaysEmpty ==
    /\ C11_Iff
    /\ (a_pc = "returned" /\ ConstantSeries(a_v)) => a_res.index = <<>>

\* C11, amended: the same, with the constant series giving an empty result
\* when max_iqr is not negative (its window IQR is 0).
C11_FlaggedWindows ==
    /\ C11_Iff
    /\ (a_pc = "returned" /\ ConstantSeries(a_v) /\ ~FLt(max_iqr, F(0))) => a_res.index = <<>>

\* One window skipped for too few finite values, the next one flagged, with
\* an IQR above the threshold.
C11_Witness ==
    /\ a_pc = "returned"
    /\ Len(a_v) = window_width + 1
    /\ Cardinality(FinitePos(AnomWindow(0))) < min_window_data
    /\ Flagged(1)
    /\ ReturnedIndices = 1..window_width
    /\ max_iqr = Frac(1, 2)

\* C12: the returned indices are strictly ascending and below len(v), and
\* the returned loads are the values of the series at those indices.
C12_AscendingUnique ==
    a_pc = "returned" =>
        /\ \A j \in 1..(Len(a_res.index) - 1) : a_res.index[j] < a_res.index[j + 1]
        /\ \A j \in DOMAIN a_res.index : a_res.index[j] >= 0 /\ a_res.index[j] < Len(a_v)
        /\ Len(a_res.load) = Len(a_res.index)
        /\ \A j \in DOMAIN a_res.index : a_res.load[j] = At(a_v, a_res.index[j])

\* Two overlapping windows flagged: the indices they share were reported
\* twice and are returned once.
C12_Witness ==
    /\ a_pc = "returned"
    /\ Len(anomalies_index) = 2 * window_width
    /\ Len(a_res.index) = window_width + 1
    /\ \E j \in DOMAIN a_res.load : a_res.load[j] = F(1)
    /\ \E j \in DOMAIN a_res.load : a_res.load[j] = F(0)

BadParams == min_window_data < MIN_DATA_IQR \/ min_window_data > window_width

\* C20: find_anomalies panics, with no window scanned, when min_window_data
\* is below 6 or above window_width, and only then; with
\* 6 <= min_window_data <= window_width the scan goes on window by window
\* until the result is returned, whatever the series.
C20_ParameterChecks ==
    /\ a_pc \in {"panic_min_data", "panic_width"} =>
          BadParams /\ a_wi = 0 /\ anomalies_index = <<>>
    /\ (a_pc \notin {"call", "idle"} /\ BadParams) => a_pc \in {"panic_min_data", "panic_width"}
    /\ (a_pc \notin {"call", "idle"} /\ ~BadParams) => a_pc \in {"scan", "returned"}
    /\ a_pc = "scan" => a_wi <= Cardinality(WindowStarts)
    /\ a_pc = "returned" => a_wi = Cardinality(WindowStarts)

\* min_window_data equal to window_width, on a series of NaN only that is
\* as long as the window or longer.
C20_Witness ==
    /\ a_pc = "returned"
    /\ min_window_data = window_width
    /\ Len(a_v) >= window_width
    /\ \A i \in DOMAIN a_v : IsNaN(a_v[i])
    /\ a_res.index = <<>>

(***************************************************************************)
(* utils.rs: discharge_by_index and setnan_by_index.  The result records   *)
(* how the call ended (kind) and the output vector: for setnan_by_index    *)
(* the vector it was given, as the call left it.                           *)
(***************************************************************************)
MaxValuesLen == 3
MaxIndices == 3

\* SortedIndices without the sort.
SortedIndicesNoSort(vi) == vi

\* let mut vi = vi.to_vec(); vi.sort();
SortedIndices(vi) == SortUsize(vi)

\* Line 495 writing the value in place of NaN when the element is NaN.
NanWriteToggling(ve, p) == [ve EXCEPT ![p + 1] = IF IsNaN(@) THEN F(0) ELSE NaN]

\* Line 495: *vee = f64::NAN, at position p (0-based).
NanWrite(ve, p) == [ve EXCEPT ![p + 1] = NaN]

\* Lines 489-501: the loops of setnan_by_index, from the element at position
\* p of the vector and the q-th sorted index on.
RECURSIVE SetnanFrom(_, _, _, _)
SetnanFrom(ve, vi, p, q) ==
    IF q > Len(vi) THEN [kind |-> "Ok", ve |-> ve]
    ELSE IF p >= Len(ve) THEN [kind |-> "panic_unwrap", ve |-> ve]
    ELSE IF p < vi[q] THEN SetnanFrom(ve, vi, p + 1, q)
    ELSE IF p = vi[q] THEN SetnanFrom(NanWrite(ve, p), vi, p + 1, q + 1)
    ELSE [kind |-> "panic_indices", ve |-> ve]

\* Lines 480-502.
setnan_by_index(ve, vi) ==
    IF Len(vi) = 0 THEN [kind |-> "Ok", ve |-> ve]
    ELSE LET sorted == SortedIndices(vi) IN
         IF ~(sorted[Len(sorted)] < Len(ve)) THEN [kind |-> "panic_assert", ve |-> ve]
         ELSE SetnanFrom(ve, sorted, 0, 1)

\* DischargeTail with the elements behind the last index left out.
DischargeTailDropped(ve, p) == <<>>

\* Lines 468-470: the elements from position p on.
DischargeTail(ve, p) == SubSeq(ve, p + 1, Len(ve))

\* Lines 456-470: the loops of discharge_by_index.
RECURSIVE DischargeFrom(_, _, _, _, _)
DischargeFrom(ve, vi, p, q, out) ==
    IF q > Len(vi) THEN [kind |-> "Ok", ve |-> out \o DischargeTail(ve, p)]
    ELSE IF p >= Len(ve) THEN [kind |-> "panic_unwrap", ve |-> out]
    ELSE IF p < vi[q] THEN DischargeFrom(ve, vi, p + 1, q, Append(out, At(ve, p)))
    ELSE IF p = vi[q] THEN DischargeFrom(ve, vi, p + 1, q + 1, out)
    ELSE [kind |-> "panic_indices", ve |-> out]

\* Lines 449-472.  vi[vi.len() - 1] of an empty vi panics (the subtraction
\* overflows, or the index is out of bounds).
discharge_by_index(ve, vi) ==
    IF Len(vi) = 0 THEN [kind |-> "panic_index", ve |-> <<>>]
    ELSE LET sorted == SortedIndices(vi) IN
         IF ~(sorted[Len(sorted)] < Len(ve)) THEN [kind |-> "panic_assert", ve |-> <<>>]
         ELSE DischargeFrom(ve, sorted, 0, 1, <<>>)

IdxValues == {NaN, F(1), F(2)}
IdxSeries == UNION {SeqsOf(IdxValues, n) : n \in 0..MaxValuesLen}
IdxLists == UNION {SeqsOf(0..MaxValuesLen, n) : n \in 0..MaxIndices}

IdxInit ==
    /\ x_ve \in IdxSeries
    /\ x_vi \in IdxLists
    /\ x_res = [kind |-> "none", ve |-> <<>>]
    /\ x_pc = "call"

\* A call setnan_by_index(&mut ve, &vi).
SetnanByIndex ==
    /\ x_pc = "call"
    /\ x_res' = setnan_by_index(x_ve, x_vi)
    /\ x_pc' = "setnan"
    /\ UNCHANGED <<x_ve, x_vi, not_idx_vars>>

\* A second call setnan_by_index(&mut ve, &vi) on the vector that the first
\* call left, with the same indices.
SetnanByIndexAgain ==
    /\ x_pc = "setnan"
    /\ x_res.kind = "Ok"
    /\ x_ve' = x_res.ve
    /\ x_res' = setnan_by_index(x_res.ve, x_vi)
    /\ x_pc' = "setnan_again"
    /\ UNCHANGED <<x_vi, not_idx_vars>>

\* A call discharge_by_index(&ve, &vi).
DischargeByIndex ==
    /\ x_pc = "call"
    /\ x_res' = discharge_by_index(x_ve, x_vi)
    /\ x_pc' = "discharge"
    /\ UNCHANGED <<x_ve, x_vi, not_idx_vars>>

SpecIdxInit == BaseIdle /\ AnomIdle /\ IdxInit /\ TlIdle /\ WinIdle /\ CallIdle /\ AwatIdle /\ LateIdle

SpecIdxNext == SetnanByIndex \/ SetnanByIndexAgain \/ DischargeByIndex

SpecIdx == SpecIdxInit /\ [][SpecIdxNext]_vars

(***************************************************************************)
(* Claims C13, C14: the index operations.                                  *)
(***************************************************************************)
IndexSet(vi) == {vi[q] : q \in DOMAIN vi}

\* The indices are distinct and below the length of the vector.
ValidIndices(ve, vi) ==
    /\ Cardinality(IndexSet(vi)) = Len(vi)
    /\ \A q \in DOMAIN vi : vi[q] < Len(ve)

\* The positions (0-based) of ve that are not listed.
KeptPos(ve, vi) == {p \in 0..(Len(ve) - 1) : p \notin IndexSet(vi)}

\* The j-th (from 1) of the kept positions in ascending order.
KeptAt(ve, vi, j) ==
    CHOOSE p \in KeptPos(ve, vi) : Cardinality({r \in KeptPos(ve, vi) : r < p}) = j - 1

\* C13: with distinct indices below the length, in any order,
\* setnan_by_index returns with the listed positions NaN and every other
\* position and the length as they were; with no index nothing changes.
C13_SetNanExactly ==
    (x_pc = "setnan" /\ ValidIndices(x_ve, x_vi)) =>
        /\ x_res.kind = "Ok"
        /\ Len(x_res.ve) = Len(x_ve)
        /\ \A p \in 0..(Len(x_ve) - 1) :
              IF p \in IndexSet(x_vi) THEN IsNaN(At(x_res.ve, p))
              ELSE At(x_res.ve, p) = At(x_ve, p)
        /\ (x_vi = <<>> => x_res.ve = x_ve)

\* Two indices in descending order that point at values; one value is kept.
C13_Witness ==
    /\ x_pc = "setnan" /\ ValidIndices(x_ve, x_vi)
    /\ Len(x_vi) = 2 /\ x_vi[1] > x_vi[2]
    /\ \A q \in DOMAIN x_vi : IsFinite(At(x_ve, x_vi[q]))
    /\ \E p \in 0..(Len(x_ve) - 1) : IsFinite(At(x_res.ve, p))
    /\ x_res.ve # x_ve

\* C14: with one or more distinct indices below the length, in any order,
\* discharge_by_index returns a new vector of len(values) - len(indices)
\* elements, those at the positions not listed, in their order; its input
\* is as it was.
C14_Discharged ==
    /\ [](x_pc = "discharge" /\ ValidIndices(x_ve, x_vi) /\ x_vi # <<>> =>
            /\ x_res.kind = "Ok"
            /\ Len(x_res.ve) = Len(x_ve) - Len(x_vi)
            /\ \A j \in 1..Len(x_res.ve) : x_res.ve[j] = At(x_ve, KeptAt(x_ve, x_vi, j)))
    /\ [][x_pc' = "discharge" => x_ve' = x_ve /\ x_vi' = x_vi]_vars

\* Indices in descending order; elements are kept before and behind the
\* removed ones.
C14_Witness ==
    /\ x_pc = "discharge" /\ ValidIndices(x_ve, x_vi)
    /\ x_vi = <<1, 0>>
    /\ Len(x_ve) = 3
    /\ x_res.ve = <<At(x_ve, 2)>>
    /\ IsFinite(At(x_ve, 2))
    /\ At(x_ve, 0) # At(x_ve, 2)

(***************************************************************************)
(* lib.rs: the operations on a TimeLoad, each as one step on the pair of   *)
(* vectors (tl_time, tl_load), in any order as a caller may apply them.    *)
(* A timestamp is a number of seconds; tl_pc names the last operation, or  *)
(* how the program stopped.                                                *)
(***************************************************************************)
SecondsPerMinute == 60
SecondsPerHour == 3600
SecondsPerDay == 86400
HalfHourMinute == 30
MaxTlLen == 3
MaxOps == 2

\* The pushes of the while loop of fill_missing_with_nan (lines 139-143)
\* from current_dt on: the datetimes.
RECURSIVE GapTimes(_, _, _)
GapTimes(cur, delta, stop) ==
    IF cur + delta < stop THEN <<cur + delta>> \o GapTimes(cur + delta, delta, stop) ELSE <<>>

\* GapLoads without the push of line 142.
GapLoadsNotPushed(n) == <<>>

\* The loads pushed with n gap datetimes (line 142).
GapLoads(n) == [j \in 1..n |-> NaN]

\* The while loop of lines 139-143 never ends: the step is not positive and
\* the condition holds.
GapDiverges(cur, delta, stop) == delta <= 0 /\ cur + delta < stop

\* Lines 135-144, from the i-th pair on.
RECURSIVE FillFrom(_, _, _, _, _)
FillFrom(tt, ll, delta, i, out) ==
    IF i > Len(tt) - 1 \/ i > Len(ll) THEN out
    ELSE LET gap == GapTimes(tt[i], delta, tt[i + 1])
         IN FillFrom(tt, ll, delta, i + 1,
                     [time |-> (out.time \o <<tt[i]>>) \o gap,
                      load |-> (out.load \o <<ll[i]>>) \o GapLoads(Len(gap))])

\* Lines 127-148.  kind is "Ok", "panic" (the unwrap of the minimum of no
\* delta, or the index of the last load) or "no_return" (the while loop
\* does not end).
fill_missing_with_nan(tt, ll) ==
    IF Len(tt) < 2 THEN [kind |-> "panic", time |-> <<>>, load |-> <<>>]
    ELSE LET delta == SetMin(Deltas(tt)) IN
         IF \E i \in 1..(Len(tt) - 1) : i <= Len(ll) /\ GapDiverges(tt[i], delta, tt[i + 1])
         THEN [kind |-> "no_return", time |-> <<>>, load |-> <<>>]
         ELSE IF Len(ll) = 0 THEN [kind |-> "panic", time |-> <<>>, load |-> <<>>]
         ELSE LET out == FillFrom(tt, ll, delta, 1, [time |-> <<>>, load |-> <<>>])
              IN [kind |-> "Ok",
                  time |-> Append(out.time, tt[Len(tt)]),
                  load |-> Append(out.load, ll[Len(ll)])]

\* The first position of bdt in tt (from 1), or 0: Iterator::position.
PositionOf(tt, bdt) ==
    IF \E i \in DOMAIN tt : tt[i] = bdt
    THEN CHOOSE i \in DOMAIN tt : tt[i] = bdt /\ \A j \in 1..(i - 1) : tt[j] # bdt
    ELSE 0

\* Lines 151-158, from the q-th bad datetime on; the load, or <<>> with
\* ok FALSE when self.load[i] is out of bounds.
RECURSIVE ReplaceBadFrom(_, _, _, _)
ReplaceBadFrom(tt, ll, bad, q) ==
    IF q > Len(bad) THEN [ok |-> TRUE, load |-> ll]
    ELSE LET i == PositionOf(tt, bad[q]) IN
         IF i = 0 THEN ReplaceBadFrom(tt, ll, bad, q + 1)
         ELSE IF i > Len(ll) THEN [ok |-> FALSE, load |-> ll]
         ELSE ReplaceBadFrom(tt, [ll EXCEPT ![i] = NaN], bad, q + 1)

\* t.time(): the time of the day.
TimeOfDay(t) == t % SecondsPerDay

\* Lines 231-244.
replace_bad_time_interval_with_nan(tt, ll, time_init, time_stop) ==
    [i \in 1..Len(ll) |->
        IF i <= Len(tt) /\ TimeOfDay(tt[i]) > time_init /\ TimeOfDay(tt[i]) < time_stop
        THEN NaN ELSE ll[i]]

\* Lines 247-257.
replace_outliers_with_nan(ll, min_load, max_load) ==
    [i \in 1..Len(ll) |-> IF FGt(ll[i], max_load) \/ FLt(ll[i], min_load) THEN NaN ELSE ll[i]]

\* Lines 261-268.
replace_errors_with_nan(ll, max_value) ==
    [i \in 1..Len(ll) |-> IF FGt(ll[i], max_value) THEN NaN ELSE ll[i]]

\* utils.rs:402-420.
mean_or_nan(vv) ==
    IF \E i \in DOMAIN vv : IsNaN(vv[i]) THEN NaN
    ELSE IF Len(vv) = 0 THEN NaN
    ELSE FDiv(SumSeq(vv), F(Len(vv)))

Minute(t) == (t % SecondsPerHour) \div SecondsPerMinute

\* Lines 178-183: the hourly datetime of t; with_minute(0) leaves the
\* seconds as they are.
HourlyTime(t) ==
    LET iter_time == IF Minute(t) >= HalfHourMinute THEN t + SecondsPerHour ELSE t
    IN iter_time - Minute(iter_time) * SecondsPerMinute

\* Lines 172-219, from the i-th point on; ht is hourly_time (a one-element
\* sequence for Some, <<>> for None), hl is hourly_loads.
RECURSIVE ToHourlyFrom(_, _, _, _, _, _)
ToHourlyFrom(tt, ll, i, ht, hl, out) ==
    IF i > Len(tt) \/ i > Len(ll)
    THEN [time |-> out.time \o ht, load |-> Append(out.load, mean_or_nan(hl))]
    ELSE LET iter_time == HourlyTime(tt[i])
             pushed == IF IsNaN(ll[i]) THEN <<>> ELSE <<ll[i]>>
         IN IF ht = <<>>
            THEN ToHourlyFrom(tt, ll, i + 1, <<iter_time>>, hl \o pushed, out)
            ELSE IF ht[1] = iter_time
            THEN ToHourlyFrom(tt, ll, i + 1, ht, hl \o pushed, out)
            ELSE ToHourlyFrom(tt, ll, i + 1, <<iter_time>>, pushed,
                              [time |-> Append(out.time, ht[1]),
                               load |-> Append(out.load, mean_or_nan(hl))])

\* Lines 161-227.
to_hourly(tt, ll) ==
    IF Len(tt) = 0 THEN [kind |-> "Err", time |-> <<>>, load |-> <<>>]
    ELSE LET out == ToHourlyFrom(tt, ll, 1, <<>>, <<>>, [time |-> <<>>, load |-> <<>>])
         IN IF out.time = <<>> THEN [kind |-> "panic", time |-> <<>>, load |-> <<>>]
            ELSE [kind |-> "Ok", time |-> out.time, load |-> out.load]

TlInstants == {0, 1800, 7200}
TlLoads == {NaN, F(1), F(2)}
TlBadLists == SeqsOf(TlInstants, 1) \cup {<<7200, 0>>, <<1800, 1800>>, <<3600, 0>>}
TlDayTimes == {0, 2000}
TlMaxValues == {F(1), F(999994)}
\* The kinds of moving average and the limits of mavg.
TlMavgCalls ==
    {[fn |-> "mavg", mv |-> mv, pct |-> F(100 * mv)] : mv \in 0..1}
        \cup {[fn |-> fn, mv |-> 0, pct |-> F(0)] : fn \in {"simd", "fold"}}
TlMinLoads == {F(0), F(2)}
TlMaxLoads == {F(17000)}
TlIndexLists == {<<>>, <<1, 0>>, <<0, 0>>} \cup SeqsOf(0..MaxTlLen, 1)
TlWindows == {<<F(1)>>, <<F(1), F(1)>>, <<F(1), F(2), F(1)>>}

\* A TimeLoad with time and load of the same length.
TlInit ==
    /\ tl_time \in UNION {SeqsOf(TlInstants, n) : n \in 0..MaxTlLen}
    /\ tl_load \in SeqsOf(TlLoads, Len(tl_time))
    /\ tl_ops = 0
    /\ tl_pc = "new"

\* The program runs and may apply one more operation.
TlReady == tl_pc \notin {"idle", "panic", "no_return"} /\ tl_ops < MaxOps

\* ftl = tl.fill_missing_with_nan()
TlFill ==
    /\ TlReady
    /\ LET r == fill_missing_with_nan(tl_time, tl_load) IN
          IF r.kind = "Ok"
          THEN tl_time' = r.time /\ tl_load' = r.load /\ tl_pc' = "fill"
          ELSE tl_pc' = r.kind /\ UNCHANGED <<tl_time, tl_load>>
    /\ tl_ops' = tl_ops + 1
    /\ UNCHANGED not_tl_vars

TlReplaceBadDatetimes ==
    /\ TlReady
    /\ \E bad \in TlBadLists :
          LET r == ReplaceBadFrom(tl_time, tl_load, bad, 1) IN
             /\ tl_load' = r.load
             /\ tl_pc' = IF r.ok THEN "bad_datetimes" ELSE "panic"
    /\ tl_ops' = tl_ops + 1
    /\ UNCHANGED <<tl_time, not_tl_vars>>

TlReplaceBadTimeInterval ==
    /\ TlReady
    /\ \E time_init \in TlDayTimes, time_stop \in {t + 1000 : t \in TlDayTimes} :
          tl_load' = replace_bad_time_interval_with_nan(tl_time, tl_load, time_init, time_stop)
    /\ tl_pc' = "bad_interval"
    /\ tl_ops' = tl_ops + 1
    /\ UNCHANGED <<tl_time, not_tl_vars>>

TlReplaceErrors ==
    /\ TlReady
    /\ \E max_value \in TlMaxValues : tl_load' = replace_errors_with_nan(tl_load, max_value)
    /\ tl_pc' = "errors"
    /\ tl_ops' = tl_ops + 1
    /\ UNCHANGED <<tl_time, not_tl_vars>>

TlReplaceOutliers ==
    /\ TlReady
    /\ \E min_load \in TlMinLoads, max_load \in TlMaxLoads :
          tl_load' = replace_outliers_with_nan(tl_load, min_load, max_load)
    /\ tl_pc' = "outliers"
    /\ tl_ops' = tl_ops + 1
    /\ UNCHANGED <<tl_time, not_tl_vars>>

\* setnan_by_index(&mut ftl.load[..], &indices)
TlSetnanByIndex ==
    /\ TlReady
    /\ \E vi \in TlIndexLists :
          LET r == setnan_by_index(tl_load, vi) IN
             /\ tl_load' = r.ve
             /\ tl_pc' = IF r.kind = "Ok" THEN "setnan" ELSE "panic"
    /\ tl_ops' = tl_ops + 1
    /\ UNCHANGED <<tl_time, not_tl_vars>>

\* ftl.load = mavg(&ftl.load[..], &window, ...), or one of the parallel
\* variants; the asserts on the window panic.
TlMavg ==
    /\ TlReady
    /\ \E ww \in TlWindows, call \in TlMavgCalls :
          IF MavgPre(tl_load, ww)
          THEN /\ tl_load' = IF call.fn = "mavg" THEN mavg(tl_load, ww, call.mv, call.pct)
                             ELSE IF call.fn = "simd" THEN mavg_parallel_simd(tl_load, ww)
                             ELSE mavg_parallel_fold(tl_load, ww)
               /\ tl_pc' = "mavg"
          ELSE tl_pc' = "panic" /\ UNCHANGED tl_load
    /\ tl_ops' = tl_ops + 1
    /\ UNCHANGED <<tl_time, not_tl_vars>>

\* tl = tl.to_hourly().unwrap()
TlToHourly ==
    /\ TlReady
    /\ LET r == to_hourly(tl_time, tl_load) IN
          IF r.kind = "Ok"
          THEN tl_time' = r.time /\ tl_load' = r.load /\ tl_pc' = "to_hourly"
          ELSE tl_pc' = "panic" /\ UNCHANGED <<tl_time, tl_load>>
    /\ tl_ops' = tl_ops + 1
    /\ UNCHANGED not_tl_vars

SpecTlInit == BaseIdle /\ AnomIdle /\ IdxIdle /\ TlInit /\ WinIdle /\ CallIdle /\ AwatIdle /\ LateIdle

SpecTlNext ==
    \/ TlFill
    \/ TlReplaceBadDatetimes
    \/ TlReplaceBadTimeInterval
    \/ TlReplaceErrors
    \/ TlReplaceOutliers
    \/ TlSetnanByIndex
    \/ TlMavg
    \/ TlToHourly

SpecTl == SpecTlInit /\ [][SpecTlNext]_vars

(***************************************************************************)
(* Claim C15: the two vectors of a TimeLoad.                               *)
(***************************************************************************)
\* C15: from a TimeLoad with len(time) = len(load), after any sequence of
\* the operations the two lengths are equal, and every operation other
\* than fill_missing_with_nan and to_hourly leaves the timestamps as they
\* are.
C15_SameLength ==
    /\ [](Len(tl_time) = Len(tl_load))
    /\ [][tl_pc' \notin {"fill", "to_hourly"} => tl_time' = tl_time]_vars

\* Two operations, the last the hourly mean of a series that a fill has
\* made longer, with a NaN and a finite mean.
C15_Witness ==
    /\ tl_pc = "to_hourly" /\ tl_ops = 2
    /\ Len(tl_time) >= 2
    /\ \E i \in DOMAIN tl_load : IsNaN(tl_load[i])
    /\ \E i \in DOMAIN tl_load : IsFinite(tl_load[i])
    /\ \E i \in DOMAIN tl_time : tl_time[i] \notin TlInstants

(***************************************************************************)
(* utils.rs: make_window.  Its claims are about exact values of computed   *)
(* weights, so here the f64 operations round: to the nearest value with a  *)
(* mantissa of MantissaBits bits (53 in f64), ties to the even mantissa,   *)
(* with an exponent that is not bounded (no overflow, no subnormals).      *)
(***************************************************************************)
MantissaBits == 3
MaxWeight == 7
MaxSide == 3

\* The integer nearest to a/d, the even one of two at the same distance.
NearestEven(a, d) ==
    LET q == a \div d
        r == a % d
    IN IF 2 * r > d \/ (2 * r = d /\ q % 2 = 1) THEN q + 1 ELSE q

\* a/d > 0 rounded to MantissaBits bits.
RECURSIVE RoundPos(_, _)
RoundPos(a, d) ==
    IF a >= (2 ^ MantissaBits) * d THEN FMul(F(2), RoundPos(a, 2 * d))
    ELSE IF a < (2 ^ (MantissaBits - 1)) * d THEN FDiv(RoundPos(2 * a, d), F(2))
    ELSE F(NearestEven(a, d))

\* The f64 nearest to x.
Round(x) ==
    IF ~IsFinite(x) \/ x.num = 0 THEN x
    ELSE IF x.num > 0 THEN RoundPos(x.num, x.den)
    ELSE FNeg(RoundPos(-x.num, x.den))

RAdd(x, y) == Round(FAdd(x, y))
RSub(x, y) == Round(FSub(x, y))
RMul(x, y) == Round(FMul(x, y))
RDiv(x, y) == Round(FDiv(x, y))

\* WStep with the two weights exchanged.
WStepReversed(central, wside, hw) == RDiv(RSub(wside, central), F(hw))

\* WStep with a step of zero for a half-width of zero.
WStepZeroAtNoSide(central, wside, hw) ==
    IF hw = 0 THEN F(0) ELSE RDiv(RSub(central, wside), F(hw))

\* Line 69: w_step.
WStep(central, wside, hw) == RDiv(RSub(central, wside), F(hw))

\* Line 70: up, the weights from the edge to the center.
WindowUp(central, wside, hw) ==
    [j \in 1..(hw + 1) |-> RAdd(wside, RMul(F(j - 1), WStep(central, wside, hw)))]

\* WindowDown without the skip(1).
WindowDownNoSkip(up) == [j \in 1..Len(up) |-> up[Len(up) + 1 - j]]

\* Line 71: up.clone().rev().skip(1).
WindowDown(up) == [j \in 1..(Len(up) - 1) |-> up[Len(up) - j]]

\* Lines 68-74.
make_window(central, wside, hw) ==
    LET up == WindowUp(central, wside, hw) IN up \o WindowDown(up)

\* The weights a caller can pass: the f64 values among 0..MaxWeight, and
\* +Inf.
WinWeights == {x \in {F(n) : n \in 0..MaxWeight} : Round(x) = x} \cup {PInf}

WinInit ==
    /\ w_central \in WinWeights
    /\ w_side \in WinWeights
    /\ mw_side \in 0..MaxSide
    /\ mw_window = <<>>
    /\ mw_pc = "call"

\* A call make_window(w_central, w_side, side).
MakeWindow ==
    /\ mw_pc = "call"
    /\ mw_window' = make_window(w_central, w_side, mw_side)
    /\ mw_pc' = "returned"
    /\ UNCHANGED <<w_central, w_side, mw_side, not_win_vars>>

SpecWinInit == BaseIdle /\ AnomIdle /\ IdxIdle /\ TlIdle /\ WinInit /\ CallIdle /\ AwatIdle /\ LateIdle

SpecWinNext == MakeWindow

SpecWin == SpecWinInit /\ [][SpecWinNext]_vars

(***************************************************************************)
(* Claims C16, C17: the window.                                            *)
(***************************************************************************)
\* make_window has returned a window of half-width 1 or more.
WindowMade == mw_pc = "returned" /\ mw_side >= 1

\* The positions (0-based) from the center to the position before the right
\* edge.
RightArm == mw_side..(2 * mw_side - 1)

Palindrome(ww) == \A j \in 1..Len(ww) : ww[j] = ww[Len(ww) + 1 - j]

StrictlyDown == \A j \in RightArm : FGt(At(mw_window, j), At(mw_window, j + 1))
StrictlyUp == \A j \in RightArm : FLt(At(mw_window, j), At(mw_window, j + 1))
WeaklyDown == \A j \in RightArm : FLe(At(mw_window, j + 1), At(mw_window, j))
WeaklyUp == \A j \in RightArm : FLe(At(mw_window, j), At(mw_window, j + 1))

ExactWeight(n) == FAdd(w_side, FMul(F(n), FDiv(FSub(w_central, w_side), F(mw_side))))

\* No operation of the interpolation rounds.
NoRounding ==
    /\ Round(FSub(w_central, w_side)) = FSub(w_central, w_side)
    /\ Round(FDiv(FSub(w_central, w_side), F(mw_side))) = FDiv(FSub(w_central, w_side), F(mw_side))
    /\ \A n \in 0..mw_side :
          /\ Round(FMul(F(n), FDiv(FSub(w_central, w_side), F(mw_side))))
                = FMul(F(n), FDiv(FSub(w_central, w_side), F(mw_side)))
          /\ Round(ExactWeight(n)) = ExactWeight(n)

C17_NonIncreasing ==
    WindowMade =>
        /\ \A j \in RightArm : FLe(At(mw_window, j + 1), At(mw_window, j))
        /\ \A j \in 1..mw_side : FLe(At(mw_window, j - 1), At(mw_window, j))

\* C17, amended: with finite weights the window is non-increasing from its
\* center to each edge when w_central >= w_side, and non-decreasing when
\* w_central <= w_side.
C17_DirectionOfWeights ==
    (WindowMade /\ IsFinite(w_central) /\ IsFinite(w_side)) =>
        /\ FLe(w_side, w_central) =>
              /\ \A j \in RightArm : FLe(At(mw_window, j + 1), At(mw_window, j))
              /\ \A j \in 1..mw_side : FLe(At(mw_window, j - 1), At(mw_window, j))
        /\ FLe(w_central, w_side) =>
              /\ \A j \in RightArm : FLe(At(mw_window, j), At(mw_window, j + 1))
              /\ \A j \in 1..mw_side : FLe(At(mw_window, j), At(mw_window, j - 1))

\* A central weight below the side weight: the window rises to its edges.
C17_Witness ==
    /\ WindowMade /\ mw_side >= 2
    /\ IsFinite(w_central) /\ IsFinite(w_side)
    /\ FLt(w_central, w_side)
    /\ \A j \in RightArm : FLt(At(mw_window, j), At(mw_window, j + 1))

(***************************************************************************)
(* utils.rs: the four functions that roll a window over a series, called   *)
(* with any series and any window: the asserts on the window length, and   *)
(* the selection of the order in awat_regression.                          *)
(*                                                                         *)
(* awat_regression fits the six polynomials with nalgebra and takes the    *)
(* logarithm of each residual; neither is within the arithmetic of this    *)
(* model.  The model takes the outcome of the fits (lines 250-275) as an   *)
(* input: the six residual sums of squares ssrs and the sum of squares ssd *)
(* of the window values, with ssr / r in {0, 1, +Inf, NaN}, where the      *)
(* logarithm is known exactly, and computes the AIC of line 280 from them. *)
(* A NaN or infinite window value makes every residual NaN.                *)
(***************************************************************************)
K_MAX == 6
MaxCallLen == 4
MaxAwatLen == 10

\* The asserts of lines 227-235.
AwatPre(len_v, len_w_) ==
    IF ~(len_w_ < len_v) THEN "panic_len"
    ELSE IF len_w_ % 2 # 1 THEN "panic_even"
    ELSE "Ok"

\* Line 262: the Gram matrix of order k has k + 1 columns from len_w points
\* and is singular when k + 1 > len_w.  With 1 or 3 points it has two equal
\* rows or a zero row, the elimination finds the zero pivot whatever the
\* rounding, try_inverse is None and the unwrap panics.
AwatInversePanics(len_w_) == len_w_ < 4

\* With 5 points the matrices of the orders 5 and 6 are singular, but the
\* pivots of the elimination are rounded: try_inverse is None, or a
\* matrix without meaning.
AwatInverseMayPanic(len_w_) == len_w_ < K_MAX + 1

\* f64::ln where it is exact.
Ln(x) ==
    CASE IsNaN(x) -> NaN
      [] x = F(0) -> NInf
      [] x = F(1) -> F(0)
      [] x = PInf -> PInf

\* Lines 278-280: the AIC of order k.
Aic(ssr, len_w_, k) ==
    LET n == F(k + 1)
        r == F(len_w_)
    IN FAdd(FAdd(FMul(r, Ln(FDiv(ssr, r))), FMul(F(2), n)),
            FDiv(FMul(FMul(F(2), n), FAdd(n, F(1))), FSub(FSub(r, n), F(1))))

\* Line 289 with <= for <.
AicBetterOrEqual(e, min_value) == FLe(e, min_value)

\* Line 289: e < min_value.
AicBetter(e, min_value) == FLt(e, min_value)

\* Lines 286-293, from index i (0-based) on.
RECURSIVE MinIndexFrom(_, _, _, _)
MinIndexFrom(aa, i, min_index, min_value) ==
    IF i >= Len(aa) THEN min_index
    ELSE IF AicBetter(At(aa, i), min_value) THEN MinIndexFrom(aa, i + 1, i, At(aa, i))
    ELSE MinIndexFrom(aa, i + 1, min_index, min_value)

\* Lines 285-305.
AwatBest(aa, ss, sd) ==
    LET min_index == MinIndexFrom(aa, 0, 0, At(aa, 0))
    IN [kind |-> "Ok", k_best |-> min_index + 1, b |-> FDiv(At(ss, min_index), sd)]

\* The outcomes of the fits on a window of len_w values.
AwatFits(len_w_) ==
    {[ssrs |-> ss, ssd |-> F(1)] : ss \in SeqsOf({F(0), F(len_w_), PInf}, K_MAX)}
        \cup {[ssrs |-> [k \in 1..K_MAX |-> F(0)], ssd |-> F(0)]}
        \cup {[ssrs |-> [k \in 1..K_MAX |-> NaN], ssd |-> sd] : sd \in {NaN, PInf}}

CallSeries == UNION {SeqsOf(Loads, n) : n \in 0..MaxCallLen}
CallWindows == UNION {SeqsOf(Weights, n) : n \in 0..MaxCallLen}

CallInit ==
    /\ c_v \in CallSeries
    /\ c_w \in CallWindows
    /\ c_res = [kind |-> "none", fn |-> "none", vout |-> <<>>]
    /\ c_pc = "call"

\* The outcome of the asserts of lines 85-93, 143-151 and 177-185.
CallResult(fn, out) ==
    IF ~(Len(c_w) < Len(c_v)) THEN [kind |-> "panic_len", fn |-> fn, vout |-> <<>>]
    ELSE IF ~MavgPre(c_v, c_w) THEN [kind |-> "panic_even", fn |-> fn, vout |-> <<>>]
    ELSE [kind |-> "Ok", fn |-> fn, vout |-> out]

CallMavg ==
    /\ c_pc = "call"
    /\ \E mv \in 0..1 : c_res' = CallResult("mavg", mavg(c_v, c_w, mv, F(100 * mv)))
    /\ c_pc' = "returned"
    /\ UNCHANGED <<c_v, c_w, not_call_vars>>

CallMavgParallelSimd ==
    /\ c_pc = "call"
    /\ c_res' = CallResult("mavg_parallel_simd", mavg_parallel_simd(c_v, c_w))
    /\ c_pc' = "returned"
    /\ UNCHANGED <<c_v, c_w, not_call_vars>>

CallMavgParallelFold ==
    /\ c_pc = "call"
    /\ c_res' = CallResult("mavg_parallel_fold", mavg_parallel_fold(c_v, c_w))
    /\ c_pc' = "returned"
    /\ UNCHANGED <<c_v, c_w, not_call_vars>>

AwatInit ==
    /\ aw_len_v \in 0..MaxAwatLen
    /\ aw_len_w \in 0..MaxAwatLen
    /\ ssrs = <<>> /\ ssd = F(0) /\ aics = <<>>
    /\ aw_res = [kind |-> "none", k_best |-> 0, b |-> NaN]
    /\ aw_pc = "call"

\* A call awat_regression(&v, len_w) that an assert or the unwrap of the
\* inverse ends.
AwatPanic ==
    /\ aw_pc = "call"
    /\ \/ /\ AwatPre(aw_len_v, aw_len_w) # "Ok"
          /\ aw_res' = [kind |-> AwatPre(aw_len_v, aw_len_w), k_best |-> 0, b |-> NaN]
       \/ /\ AwatPre(aw_len_v, aw_len_w) = "Ok"
          /\ AwatInverseMayPanic(aw_len_w)
          /\ aw_res' = [kind |-> "panic_unwrap", k_best |-> 0, b |-> NaN]
    /\ aw_pc' = "panicked"
    /\ UNCHANGED <<aw_len_v, aw_len_w, ssrs, ssd, aics, not_awat_vars>>

\* A call awat_regression(&v, len_w) that returns.
AwatRegression ==
    /\ aw_pc = "call"
    /\ AwatPre(aw_len_v, aw_len_w) = "Ok"
    /\ ~AwatInversePanics(aw_len_w)
    /\ \E fit \in AwatFits(aw_len_w) :
          LET aa == [k \in 1..K_MAX |-> Aic(fit.ssrs[k], aw_len_w, k)] IN
             /\ ssrs' = fit.ssrs
             /\ ssd' = fit.ssd
             /\ aics' = aa
             /\ aw_res' = AwatBest(aa, fit.ssrs, fit.ssd)
    /\ aw_pc' = "returned"
    /\ UNCHANGED <<aw_len_v, aw_len_w, not_awat_vars>>

SpecWindowedInit ==
    /\ BaseIdle /\ AnomIdle /\ IdxIdle /\ TlIdle /\ WinIdle /\ LateIdle
    /\ \/ CallInit /\ AwatIdle
       \/ CallIdle /\ AwatInit

SpecWindowedNext ==
    \/ CallMavg
    \/ CallMavgParallelSimd
    \/ CallMavgParallelFold
    \/ AwatPanic
    \/ AwatRegression

SpecWindowed == SpecWindowedInit /\ [][SpecWindowedNext]_vars

\* The result of a call of awat_regression that returned.
AwatReturned == aw_pc = "returned"

\* The two AIC values are equal as f64 values.
FEq(x, y) == ~IsNaN(x) /\ ~IsNaN(y) /\ x = y

\* C18: awat_regression returns an order k* in 1..6 whose AIC is not above
\* any of the six AIC values and is strictly below the AIC of every lower
\* order, so the lowest order wins a tie (an AIC that is NaN compares with
\* nothing and is passed over; the order is 1 when all six are NaN); the
\* ratio returned is the residual sum of squares of the order k* divided by
\* the sum of squares of the window values.
C18_ArgminAic ==
    AwatReturned =>
        /\ aw_res.kind = "Ok"
        /\ aw_res.k_best \in 1..K_MAX
        /\ \A j \in 1..K_MAX : IsNaN(aics[j]) \/ FLe(aics[aw_res.k_best], aics[j])
        /\ \A j \in 1..K_MAX : j < aw_res.k_best => ~FEq(aics[j], aics[aw_res.k_best])
        /\ aw_res.b = FDiv(ssrs[aw_res.k_best], ssd)

\* The orders 2 and 3 share the minimal AIC and order 2 is returned.
C18_Witness ==
    /\ AwatReturned
    /\ aw_res.k_best = 2
    /\ FEq(aics[2], aics[3])
    /\ FGt(aics[1], aics[2])
    /\ aw_res.b = F(0)

\* The window of a call is too long or has an even length.
BadWindow(len_v, len_w_) == ~(len_w_ < len_v) \/ len_w_ % 2 = 0

\* C19: each of mavg, mavg_parallel_simd, mavg_parallel_fold and
\* awat_regression panics, returning no output sequence, whenever the window
\* is not shorter than the series or has an even length; for an odd window
\* shorter than the series the three moving averages return one value for
\* each value of the series.
C19_StructuralFailures ==
    /\ c_pc = "returned" =>
          /\ c_res.fn \in {"mavg", "mavg_parallel_simd", "mavg_parallel_fold"}
          /\ BadWindow(Len(c_v), Len(c_w)) =>
                c_res.kind \in {"panic_len", "panic_even"} /\ c_res.vout = <<>>
          /\ ~BadWindow(Len(c_v), Len(c_w)) =>
                c_res.kind = "Ok" /\ Len(c_res.vout) = Len(c_v)
    /\ aw_pc \in {"returned", "panicked"} /\ BadWindow(aw_len_v, aw_len_w) =>
          /\ aw_pc = "panicked"
          /\ aw_res.kind \in {"panic_len", "panic_even"}
          /\ aics = <<>>

\* mavg_parallel_fold called with a window of two weights on three values.
C19_Witness ==
    /\ c_pc = "returned"
    /\ c_res.fn = "mavg_parallel_fold"
    /\ c_res.kind = "panic_even"
    /\ Len(c_w) = 2 /\ Len(c_v) = 3

(***************************************************************************)
(* Claims C21-C30.                                                         *)
(***************************************************************************)
\* The percentage of the window weight that is missing at position i is
\* below max_missing_wpct.
WeightMissingBelow(i) ==
    FLt(FMul(MissingWeight(v, w, i), F(100)), FMul(SumSeq(w), max_missing_wpct))

\* C21: as the comment on mavg documents, a position receives a weighted
\* average only when the number of missing data under its window is strictly
\* below max_missing_v and the percentage of missing window weight is
\* strictly below max_missing_wpct.
C21_DocumentedLimits ==
    m_pc = "done" =>
        \A i \in 0..(Len(v) - 1) :
            ~IsNaN(At(vout, i)) =>
                /\ Cardinality(MissingPos(v, w, i)) < max_missing_v
                /\ WeightMissingBelow(i)

\* A position with exactly max_missing_v >= 1 missing data under its window
\* and less than max_missing_wpct of the weight missing holds an average.
C21_Witness ==
    /\ m_pc = "done"
    /\ max_missing_v >= 1
    /\ \E i \in 0..(Len(v) - 1) :
          /\ Cardinality(MissingPos(v, w, i)) = max_missing_v
          /\ WeightMissingBelow(i)
          /\ IsFinite(At(vout, i))

\* C22: a second setnan_by_index with the same distinct indices below the
\* length returns and leaves the vector as the first call left it.
C22_Idempotent ==
    /\ (x_pc = "setnan" /\ ValidIndices(x_ve, x_vi)) => x_res.kind = "Ok"
    /\ (x_pc = "setnan_again" /\ ValidIndices(x_ve, x_vi)) =>
          /\ x_res.kind = "Ok"
          /\ x_res.ve = x_ve

\* The second call with three indices, not in order, on a vector where the
\* first call has written NaN over values.
C22_Witness ==
    /\ x_pc = "setnan_again" /\ ValidIndices(x_ve, x_vi)
    /\ x_vi = <<2, 0, 1>>
    /\ \A p \in 0..2 : IsNaN(At(x_ve, p))
    /\ x_res.ve = x_ve

\* C25: discharge_by_index with an empty index list returns a copy of the
\* whole input.
C25_EmptyListCopies ==
    (x_pc = "discharge" /\ x_vi = <<>>) => (x_res.kind = "Ok" /\ x_res.ve = x_ve)

\* discharge_by_index was called with no index on a vector of values and
\* panicked; setnan_by_index would have returned.
C25_Witness ==
    /\ x_pc = "discharge" /\ x_vi = <<>>
    /\ Len(x_ve) = 2
    /\ x_res.kind = "panic_index"
    /\ setnan_by_index(x_ve, x_vi).kind = "Ok"

\* C26: when setnan_by_index fails, on an index not below the length or on
\* a repeated index, the vector is as it was before the call.
C26_FailureLeavesVector ==
    (x_pc = "setnan" /\ x_res.kind # "Ok") => x_res.ve = x_ve

\* setnan_by_index panicked on a repeated index after writing NaN over a
\* value.
C26_Witness ==
    /\ x_pc = "setnan"
    /\ x_res.kind = "panic_indices"
    /\ x_vi = <<1, 1>>
    /\ IsFinite(At(x_ve, 1))
    /\ IsNaN(At(x_res.ve, 1))

\* fill_missing_with_nan has returned.
FillReturned == f_pc \in {"filled", "continuous", "panic_not_continuous"}

\* C24 as stated: fill_missing_with_nan returns on every input of two or
\* more points, in order or not.  The while loop of lines 139-143 ends
\* exactly when each pass brings current_dt nearer to dtw[1]: with a
\* min_delta of zero or less a condition that holds once holds for ever.
C24_AlwaysTerminates ==
    (f_pc = "while" /\ current_dt + min_delta < At(time, f_i + 1)) => min_delta > 0

\* C24: fill_missing_with_nan returns, with a series of no more points than
\* the instants from the first to the last timestamp, on every strictly
\* increasing input of two or more points.
C24_OrderedTerminates ==
    /\ StrictlyIncreasing(time) ~> FillReturned
    /\ [](StrictlyIncreasing(time) => Len(f_time) <= time[Len(time)] - time[1] + 1)

\* A strictly increasing series of three points with gaps was filled.
C24_Witness ==
    /\ f_pc = "filled"
    /\ Len(time) = 3
    /\ StrictlyIncreasing(time)
    /\ Len(f_time) > 4
    /\ min_delta = 1

\* make_window returned for a half-width of zero.
NoSideWindowMade == mw_pc = "returned" /\ mw_side = 0

\* C30 as stated: with a half-width of zero and finite weights make_window
\* returns the window of the central weight alone.
C30_CentralWeightAlone ==
    (NoSideWindowMade /\ IsFinite(w_central) /\ IsFinite(w_side)) =>
        mw_window = <<w_central>>

\* C30: with a half-width of zero make_window returns one element, which is
\* NaN whatever the weights, and a moving average with that window is NaN
\* at every position.
C30_NoSideIsNaN ==
    NoSideWindowMade =>
        /\ Len(mw_window) = 1
        /\ IsNaN(mw_window[1])
        /\ \A vv \in SeqsOf({F(1), F(2)}, 2) :
              \A i \in 1..2 : IsNaN(mavg(vv, mw_window, 1, F(100))[i])

\* make_window(2, 1, 0) returned.
C30_Witness ==
    /\ NoSideWindowMade
    /\ w_central = F(2) /\ w_side = F(1)
    /\ IsNaN(mw_window[1])

\* A call of awat_regression that passed the asserts has ended.
AwatEnded == aw_pc \in {"returned", "panicked"} /\ AwatPre(aw_len_v, aw_len_w) = "Ok"

\* C28: awat_regression fails on the inversion of the Gram matrix for every
\* odd window width below 7 and for no odd width of 7 or more, whatever the
\* data.
C28_FailsBelowSeven ==
    AwatEnded => (aw_res.kind = "panic_unwrap" <=> aw_len_w < K_MAX + 1)

\* awat_regression called with a window of 5 values returned an order and a
\* ratio.
C28_Witness ==
    /\ AwatEnded
    /\ aw_len_w = 5
    /\ aw_pc = "returned"
    /\ aw_res.k_best \in 1..K_MAX

(***************************************************************************)
(* lib.rs: TimeLoad::to_hourly called on any series, with timestamps that  *)
(* have minutes and seconds.                                               *)
(***************************************************************************)
MaxHourlyLen == 3

\* 00:00:00, 00:10:10, 00:20:05, 00:30:00 and 01:01:00 of one day.
HourInstants == {0, 610, 1205, 1800, 3660}

HourInit ==
    /\ h_time \in UNION {SeqsOf(HourInstants, n) : n \in 0..MaxHourlyLen}
    /\ h_load \in SeqsOf({NaN, F(1), F(2)}, Len(h_time))
    /\ h_res = [kind |-> "none", time |-> <<>>, load |-> <<>>]
    /\ h_pc = "call"

\* A call tl.to_hourly().
ToHourly ==
    /\ h_pc = "call"
    /\ h_res' = to_hourly(h_time, h_load)
    /\ h_pc' = "returned"
    /\ UNCHANGED <<h_time, h_load, not_hour_vars>>

SpecHourlyInit == BaseIdle /\ MoreIdle /\ HourInit /\ LogIdle

SpecHourlyNext == ToHourly

SpecHourly == SpecHourlyInit /\ [][SpecHourlyNext]_vars

\* The hour nearest to t: the next one from minute 30 on.
NearestHour(t) ==
    IF Minute(t) >= HalfHourMinute
    THEN (t \div SecondsPerHour + 1) * SecondsPerHour
    ELSE (t \div SecondsPerHour) * SecondsPerHour

\* The points that begin a group of consecutive points of one hour.
GroupStarts ==
    {i \in 1..Len(h_time) : i = 1 \/ NearestHour(h_time[i]) # NearestHour(h_time[i - 1])}

\* The first point of the j-th group, and the point behind its last.
GroupStart(j) == CHOOSE i \in GroupStarts : Cardinality({k \in GroupStarts : k < i}) = j - 1

GroupEnd(j) ==
    IF j = Cardinality(GroupStarts) THEN Len(h_time) + 1 ELSE GroupStart(j + 1)

\* The loads of the j-th group that are not NaN, in order.
GroupLoads(j) ==
    SelectSeq(SubSeq(h_load, GroupStart(j), GroupEnd(j) - 1), LAMBDA l : ~IsNaN(l))

\* C23: to_hourly returns the error exactly on an empty series, and
\* otherwise one point for each group of consecutive points with the same
\* nearest hour, in order, stamped with that hour and holding the mean of
\* the loads of the group that are not NaN, or NaN without any.
C23_NearestHourGroups ==
    h_pc = "returned" =>
        /\ h_res.kind = "Err" <=> h_time = <<>>
        /\ h_time # <<>> =>
              /\ h_res.kind = "Ok"
              /\ Len(h_res.time) = Cardinality(GroupStarts)
              /\ Len(h_res.load) = Cardinality(GroupStarts)
              /\ \A j \in 1..Cardinality(GroupStarts) :
                    /\ j <= Len(h_res.time) => h_res.time[j] = NearestHour(h_time[GroupStart(j)])
                    /\ j <= Len(h_res.load) =>
                          h_res.load[j] =
                              IF GroupLoads(j) = <<>> THEN NaN
                              ELSE FDiv(SumSeq(GroupLoads(j)), F(Len(GroupLoads(j))))

\* 00:10:10 and 00:20:05, both of the hour 00:00:00, with the loads 1 and 2
\* came out as two points, stamped 00:00:10 and 00:00:05.
C23_Witness ==
    /\ h_pc = "returned"
    /\ h_time = <<610, 1205>>
    /\ h_load = <<F(1), F(2)>>
    /\ h_res.time = <<10, 5>>
    /\ h_res.load = <<F(1), F(2)>>

\* C27: for a strictly increasing series every timestamp of the output of
\* to_hourly is on an hour (minute 0, second 0) and the output timestamps
\* are strictly increasing.
C27_OnTheHour ==
    (h_pc = "returned" /\ StrictlyIncreasing(h_time) /\ h_time # <<>>) =>
        /\ \A j \in DOMAIN h_res.time : h_res.time[j] % SecondsPerHour = 0
        /\ StrictlyIncreasing(h_res.time)

\* One point at 00:10:10 came out stamped 00:00:10.
C27_Witness ==
    /\ h_pc = "returned"
    /\ h_time = <<610>>
    /\ h_res.kind = "Ok"
    /\ h_res.time = <<10>>

(***************************************************************************)
(* bin/load_log.rs: the logging loop of main, from the first rounded       *)
(* datetime on.  Times are seconds of the clock (Local::now()); every      *)
(* blocking step (the device read, a connection attempt, a sleep, a write) *)
(* takes any time, and the clock is looked at just before, on, and just    *)
(* after the datetimes of the grid.  A sleep lasts at least as long as     *)
(* asked; the writes to the CSV file succeed.                              *)
(***************************************************************************)
MaxMinutes == 2
MaxLogMinutes == 4
connection_retry == 30

\* The UTC offsets of the local time zone: none, and +05:45.
LogOffsets == {0, 20700}

\* load_log_dad141.rs:128-138, on seconds.
chrono_first_rounded(datetime, rounding_sec, offset) ==
    LET local_sec == datetime + offset
    IN rounding_sec * ((local_sec + rounding_sec) \div rounding_sec) - offset

\* Line 66: minutes_duration, in seconds.
MinutesDuration == minutes * SecondsPerMinute

\* The instants at which the model looks at the clock.
LogTimes ==
    {t \in 0..(MaxLogMinutes * SecondsPerMinute + 1) :
        (t + l_offset) % MinutesDuration \in {0, 1, MinutesDuration - 1}}

\* The clock at or after t.
Later(t) == {u \in LogTimes : u >= t}

\* The state at line 69: the first datetime is rounded from the clock.
LogInit ==
    /\ minutes \in 1..MaxMinutes
    /\ l_offset \in LogOffsets
    /\ dt_now \in {0, SecondsPerMinute - 1, SecondsPerMinute}
    /\ l_now = dt_now
    /\ dtr = chrono_first_rounded(dt_now, minutes * SecondsPerMinute, l_offset)
    /\ dtr_next = dtr + minutes * SecondsPerMinute
    /\ connection_ok = TRUE
    /\ rows = <<>>
    /\ l_pc = "start"

\* Lines 77-82: the sleep until the first datetime; a negative duration
\* panics.
LogStartWait ==
    /\ l_pc = "start"
    /\ \E now1 \in Later(l_now) :
          IF now1 > dtr
          THEN l_now' = now1 /\ l_pc' = "panic_sleep"
          ELSE l_now' \in Later(dtr) /\ l_pc' = "read"
    /\ UNCHANGED <<dt_now, minutes, l_offset, dtr, dtr_next, connection_ok, rows, not_log_vars>>

\* Lines 90-138: the command is written, the answer read, and the row of
\* dtr appended; a failed read marks the connection.
LogRead ==
    /\ l_pc = "read"
    /\ \E ok \in BOOLEAN : connection_ok' = IF ok THEN connection_ok ELSE FALSE
    /\ rows' = Append(rows, [dt |-> dtr, kind |-> "reading", at |-> l_now])
    /\ l_now' \in Later(l_now)
    /\ l_pc' = "reconnect"
    /\ UNCHANGED <<dt_now, minutes, l_offset, dtr, dtr_next, not_log_vars>>

\* Lines 141-154: one test of the condition of the recovery loop, and one
\* attempt to connect.
LogReconnect ==
    /\ l_pc = "reconnect"
    /\ IF connection_ok
       THEN l_pc' = "skip" /\ UNCHANGED <<l_now, connection_ok>>
       ELSE /\ l_pc' = "reconnect"
            /\ \/ connection_ok' = TRUE /\ l_now' \in Later(l_now)
               \/ connection_ok' = FALSE /\ l_now' \in Later(l_now + connection_retry)
    /\ UNCHANGED <<dt_now, minutes, l_offset, dtr, dtr_next, rows, not_log_vars>>

\* LogSkip without the row of the skipped datetime.
LogSkipNoRow ==
    /\ l_pc = "skip"
    /\ IF dtr_next <= l_now
       THEN /\ dtr_next' = dtr_next + MinutesDuration
            /\ l_now' \in Later(l_now)
            /\ UNCHANGED <<l_pc, rows>>
       ELSE l_pc' = "wait" /\ UNCHANGED <<rows, dtr_next, l_now>>
    /\ UNCHANGED <<dt_now, minutes, l_offset, dtr, connection_ok, not_log_vars>>

\* Lines 157-176: one test of the condition of the loop over the datetimes
\* that have passed, and the skipped row.
LogSkip ==
    /\ l_pc = "skip"
    /\ IF dtr_next <= l_now
       THEN /\ rows' = Append(rows, [dt |-> dtr_next, kind |-> "skipped", at |-> l_now])
            /\ dtr_next' = dtr_next + MinutesDuration
            /\ l_now' \in Later(l_now)
            /\ UNCHANGED l_pc
       ELSE l_pc' = "wait" /\ UNCHANGED <<rows, dtr_next, l_now>>
    /\ UNCHANGED <<dt_now, minutes, l_offset, dtr, connection_ok, not_log_vars>>

\* Lines 179-187: the sleep until dtr_next (none when it has passed since
\* the test), and the datetimes of the next reading.
LogWait ==
    /\ l_pc = "wait"
    /\ \E now1 \in Later(l_now) :
          l_now' \in Later(IF now1 > dtr_next THEN now1 ELSE dtr_next)
    /\ dtr' = dtr_next
    /\ dtr_next' = dtr_next + MinutesDuration
    /\ l_pc' = "read"
    /\ UNCHANGED <<dt_now, minutes, l_offset, connection_ok, rows, not_log_vars>>

SpecLogInit == BaseIdle /\ MoreIdle /\ HourIdle /\ LogInit

SpecLogNext == LogStartWait \/ LogRead \/ LogReconnect \/ LogSkip \/ LogWait

SpecLog == SpecLogInit /\ [][SpecLogNext]_vars

\* The first datetime of the grid.
Dtr0 == chrono_first_rounded(dt_now, MinutesDuration, l_offset)

\* C29: the rows appended to the CSV file are stamped with the grid dtr0,
\* dtr0 + interval, dtr0 + 2*interval, ..., in this order, each datetime
\* once, as a reading row or as a skipped row, whatever time the steps take:
\* when a reading is about to be taken every earlier datetime of the grid
\* has its row; the reading of a row is not taken before the datetime of
\* the row; and no reading is taken while the connection is marked failed.
C29_GridRows ==
    /\ \A j \in DOMAIN rows : rows[j].dt = Dtr0 + (j - 1) * MinutesDuration
    /\ \A j \in DOMAIN rows : rows[j].kind = "reading" => rows[j].at >= rows[j].dt
    /\ l_pc = "read" => (connection_ok /\ dtr = Dtr0 + Len(rows) * MinutesDuration)
    /\ l_pc = "wait" => dtr_next = Dtr0 + Len(rows) * MinutesDuration
    /\ l_pc = "wait" => dtr_next > l_now

\* A reading taken late, after a connection that failed, then a skipped row
\* and the next reading.
C29_Witness ==
    /\ Len(rows) = 3
    /\ rows[1].kind = "reading" /\ rows[1].at > rows[1].dt
    /\ rows[2].kind = "skipped"
    /\ rows[3].kind = "reading"
    /\ connection_ok = FALSE
    /\ l_offset # 0

====
